---- MODULE Spec2Model ----
(***************************************************************************)
(* The PMC metadata adapter (safelyPatchPMCMetadata,                       *)
(* safelyUpdatePMCMetadata), the grant operations that ride on it,         *)
(* confirmPMC, clonePMCVersion and the inbound status signals, as a state  *)
(* machine over one Work and its Submission: the first WorkVersion with    *)
(* its PMC SubmissionVersions, and the versions made from it by cloning.   *)
(***************************************************************************)
EXTENDS Integers, Sequences, FiniteSets, TLC

VARIABLES
    wvPmc,          \* WorkVersion.metadata.pmc
    wvVersion,      \* the store's concurrency tag of WorkVersion.metadata
    wvTitle,        \* WorkVersion.title (the denormalised display title)
    wvDraft,        \* WorkVersion.draft
    wvDescription,  \* WorkVersion.description
    wvAuthors,      \* WorkVersion.authors
    wvDate,         \* WorkVersion.date
    wvDoi,          \* WorkVersion.doi
    svs,            \* the PMC SubmissionVersions of the WorkVersion: id -> record
    subDate,        \* Submission.date_published
    clock,          \* the current date
    pc,             \* each caller's position
    op,             \* each caller's current (or last) call and its arguments
    snap,           \* the pmc document and tag the caller's last read returned
    out,            \* what the caller's transform last returned
    attempts,       \* write attempts of the caller's current store update
    res,            \* what the caller's last call returned
    why,            \* for an error result: what was caught; else what was logged
    cPmc,           \* confirmPMC: the pmc document read by findUnique
    cDate,          \* confirmPMC: currentDate
    nops,           \* calls started so far
    budget,         \* calls the behaviour may start
    clones,         \* the WorkVersion/SubmissionVersion pairs created by cloning
    activities,     \* the Activity table, in order of creation
    svMessages,     \* SubmissionVersion.metadata.pmc.emailProcessing.messages
    loc,            \* locals of a clonePMCVersion or inbound-signal call
    svSeverity,     \* SubmissionVersion.metadata.pmc.emailProcessing.status
    notifications,  \* the status-change events handed to the channel, in order
    message,        \* the Message row of an inbound event: status and results
    pureIn,         \* the arguments of a pure function under study
    pureOut         \* what the function returned for them

vars == <<wvPmc, wvVersion, wvTitle, wvDraft, wvDescription, wvAuthors, wvDate,
          wvDoi, svs, subDate, clock, pc, op, snap, out, attempts, res, why,
          cPmc, cDate, nops, budget, clones, activities, svMessages, loc,
          svSeverity, notifications, message, pureIn, pureOut>>

wvVars == <<wvDraft, wvDescription, wvAuthors, wvDate, wvDoi>>
subVars == <<svs, subDate>>
confirmLocals == <<cPmc, cDate>>
lifeVars == <<clones, activities, svMessages, loc>>
pureVars == <<pureIn, pureOut>>
signalVars == <<svSeverity, notifications, message>>

----------------------------------------------------------------------------
(* Bounds and input domains *)

MaxOps == 2       \* calls of concurrent callers
MaxSeqOps == 4    \* calls of one caller, one after the other
MaxClock == 2
MaxLifeOps == 3   \* confirm and clone calls of concurrent callers
MaxLifeSeqOps == 3 \* confirm, clone and signal calls of one caller
MaxRaceOps == 3   \* grant calls of concurrent callers: make, show, change
MaxMessageOps == 3 \* updateMessageStatus calls of concurrent callers
MaxErrOps == 3    \* calls of concurrent callers, enough to use up the retries

Procs == {"p1", "p2"}
SVIds == {"s1", "s2"}

Undef == "undefined"
Null == <<>>
DefaultTitle == "New PMC Deposit"
\* the id of the WorkVersion, and an id no WorkVersion has
WorkVersionId == "wv1"
MissingWorkVersionId == "wv0"

FunderKeys == {"hhmi", "nih"}
\* grant id strings, as sequences of characters
RawGrantIds == {<<" ", "a", " ">>, <<"b">>}
HhmiDetails == {[investigatorName |-> Undef, uniqueId |-> Undef],
                [investigatorName |-> "n1", uniqueId |-> "u1"]}
UniqueIds == {"u1", "u2"}
TitleInputs == {"T2", Undef}

----------------------------------------------------------------------------
(* Pure helpers *)

RECURSIVE TrimLeft(_)
TrimLeft(s) == IF s # <<>> /\ Head(s) = " " THEN TrimLeft(Tail(s)) ELSE s

RECURSIVE TrimRight(_)
TrimRight(s) ==
    IF s # <<>> /\ s[Len(s)] = " " THEN TrimRight(SubSeq(s, 1, Len(s) - 1)) ELSE s

normalizeGrantId(g) == TrimRight(TrimLeft(g))

IsHhmi(g) == g.funderKey = "hhmi"
NotHhmi(g) == g.funderKey # "hhmi"

ensureHhmiFirst(gs) == SelectSeq(gs, IsHhmi) \o SelectSeq(gs, NotHhmi)

\* the grants array that stands for a legacy list of funder keys: one entry
\* per funder key, in the order of the list, with an empty grant id
MigratedGrants(funders) ==
    [i \in 1..Len(funders) |->
        [id |-> 0 - i, funderKey |-> funders[i], grantId |-> <<>>,
         investigatorName |-> Undef, uniqueId |-> Undef]]

\* the document with the grants array of its legacy funders list
WithMigratedGrants(pmc) ==
    LET funders == IF "funders" \in DOMAIN pmc THEN pmc.funders ELSE <<>>
    IN  [key \in DOMAIN pmc \cup {"grants"} |->
            IF key = "grants" THEN MigratedGrants(funders) ELSE pmc[key]]

\* as ensureGrantsStructure, but a document that has a funders list is
\* migrated again, whether it has a grants array or not
ensureGrantsStructureAgain(pmc) ==
    IF "funders" \in DOMAIN pmc THEN WithMigratedGrants(pmc) ELSE pmc

\* the document unchanged when it has a grants array; a legacy document, with
\* its funders list made into a grants array
ensureGrantsStructure(pmc) ==
    IF "grants" \in DOMAIN pmc THEN pmc ELSE WithMigratedGrants(pmc)

Throw == [ok |-> FALSE, pmc |-> [undefined |-> TRUE]]
Return(pmc) == [ok |-> TRUE, pmc |-> pmc]

\* Array.prototype.findIndex over the set of matching positions, 1-based;
\* 0 when nothing matches
FindIndex(matching) ==
    IF matching = {} THEN 0
    ELSE CHOOSE i \in matching : \A j \in matching : i <= j

RemoveAt(s, i) == SubSeq(s, 1, i - 1) \o SubSeq(s, i + 1, Len(s))

Truthy(x) == x # Undef /\ x # ""

----------------------------------------------------------------------------
(* The grant transforms handed to safelyUpdatePMCMetadata.  Each takes the  *)
(* current pmc document and the validated form input o, and returns a new  *)
(* document or throws.                                                     *)

\* as AddGrantFn, but the duplicate check compares the stored grant ids with
\* the grant id as typed
AddGrantFnRawCompare(pmc, o) ==
    LET currentGrants == pmc.grants
        normalizedGrantId == normalizeGrantId(o.grantId)
        existingGrant ==
            \E i \in 1..Len(currentGrants) :
                /\ currentGrants[i].funderKey = o.funderKey
                /\ currentGrants[i].grantId = o.grantId
        newGrant ==
            [id |-> o.uuid, funderKey |-> o.funderKey, grantId |-> normalizedGrantId,
             investigatorName |->
                 IF o.funderKey = "hhmi" /\ Truthy(o.investigatorName)
                 THEN o.investigatorName ELSE Undef,
             uniqueId |->
                 IF o.funderKey = "hhmi" /\ Truthy(o.uniqueId)
                 THEN o.uniqueId ELSE Undef]
    IN  IF existingGrant
        THEN Throw
        ELSE Return([pmc EXCEPT
                 !.grants = ensureHhmiFirst(Append(currentGrants, newGrant))])

\* as AddGrantFn, but the new entry stays where it was appended
AddGrantFnUnsorted(pmc, o) ==
    LET currentGrants == pmc.grants
        normalizedGrantId == normalizeGrantId(o.grantId)
        existingGrant ==
            \E i \in 1..Len(currentGrants) :
                /\ currentGrants[i].funderKey = o.funderKey
                /\ normalizeGrantId(currentGrants[i].grantId) = normalizedGrantId
        newGrant ==
            [id |-> o.uuid, funderKey |-> o.funderKey, grantId |-> normalizedGrantId,
             investigatorName |->
                 IF o.funderKey = "hhmi" /\ Truthy(o.investigatorName)
                 THEN o.investigatorName ELSE Undef,
             uniqueId |->
                 IF o.funderKey = "hhmi" /\ Truthy(o.uniqueId)
                 THEN o.uniqueId ELSE Undef]
    IN  IF existingGrant
        THEN Throw
        ELSE Return([pmc EXCEPT !.grants = Append(currentGrants, newGrant)])

\* as AddGrantFn, but the investigator name and unique id are kept for every
\* funder
AddGrantFnKeepsDetails(pmc, o) ==
    LET currentGrants == pmc.grants
        normalizedGrantId == normalizeGrantId(o.grantId)
        existingGrant ==
            \E i \in 1..Len(currentGrants) :
                /\ currentGrants[i].funderKey = o.funderKey
                /\ normalizeGrantId(currentGrants[i].grantId) = normalizedGrantId
        newGrant ==
            [id |-> o.uuid, funderKey |-> o.funderKey, grantId |-> normalizedGrantId,
             investigatorName |-> o.investigatorName,
             uniqueId |-> o.uniqueId]
    IN  IF existingGrant
        THEN Throw
        ELSE Return([pmc EXCEPT
                 !.grants = ensureHhmiFirst(Append(currentGrants, newGrant))])

AddGrantFn(pmc, o) ==
    LET migratedMetadata == ensureGrantsStructure(pmc)
        currentGrants == migratedMetadata.grants
        normalizedGrantId == normalizeGrantId(o.grantId)
        existingGrant ==
            \E i \in 1..Len(currentGrants) :
                /\ currentGrants[i].funderKey = o.funderKey
                /\ normalizeGrantId(currentGrants[i].grantId) = normalizedGrantId
        newGrant ==
            [id |-> o.uuid,
             funderKey |-> o.funderKey,
             grantId |-> normalizedGrantId,
             investigatorName |->
                 IF o.funderKey = "hhmi" /\ Truthy(o.investigatorName)
                 THEN o.investigatorName ELSE Undef,
             uniqueId |->
                 IF o.funderKey = "hhmi" /\ Truthy(o.uniqueId)
                 THEN o.uniqueId ELSE Undef]
        updatedGrants == Append(currentGrants, newGrant)
        finalGrants == ensureHhmiFirst(updatedGrants)
    IN  IF existingGrant
        THEN Throw
        ELSE Return([migratedMetadata EXCEPT !.grants = finalGrants])

\* as RemoveGrantFn, but without the guard on the only HHMI grant
RemoveGrantFnNoGuard(pmc, o) ==
    LET currentGrants == pmc.grants
        HasId(g) == g.id = o.id
        OtherId(g) == g.id # o.id
    IN  IF FindIndex({i \in DOMAIN currentGrants : HasId(currentGrants[i])}) = 0
        THEN Throw
        ELSE Return([pmc EXCEPT
                 !.grants = ensureHhmiFirst(SelectSeq(currentGrants, OtherId))])

\* as RemoveGrantFn, but the guard does not look at the funder of the target
RemoveGrantFnAnyTarget(pmc, o) ==
    LET currentGrants == pmc.grants
        HasId(g) == g.id = o.id
        OtherId(g) == g.id # o.id
    IN  IF FindIndex({i \in DOMAIN currentGrants : HasId(currentGrants[i])}) = 0
        THEN Throw
        ELSE IF Len(SelectSeq(currentGrants, IsHhmi)) = 1
        THEN Throw
        ELSE Return([pmc EXCEPT
                 !.grants = ensureHhmiFirst(SelectSeq(currentGrants, OtherId))])

RemoveGrantFn(pmc, o) ==
    LET migratedMetadata == ensureGrantsStructure(pmc)
        currentGrants == migratedMetadata.grants
        HasId(g) == g.id = o.id
        OtherId(g) == g.id # o.id
        grantIndex == FindIndex({i \in DOMAIN currentGrants : HasId(currentGrants[i])})
        grantToRemove == currentGrants[grantIndex]
        hhmiGrants == SelectSeq(currentGrants, IsHhmi)
        updatedGrants == SelectSeq(currentGrants, OtherId)
        finalGrants == ensureHhmiFirst(updatedGrants)
    IN  IF grantIndex = 0
        THEN Throw
        ELSE IF grantToRemove.funderKey = "hhmi" /\ Len(hhmiGrants) = 1
        THEN Throw
        ELSE Return([migratedMetadata EXCEPT !.grants = finalGrants])

\* as UpdateGrantIdFn, but the duplicate check looks at the entry itself too
UpdateGrantIdFnCountsItself(pmc, o) ==
    LET currentGrants == pmc.grants
        grantToUpdate == currentGrants[o.index + 1]
        normalizedGrantId == normalizeGrantId(o.grantId)
        existingGrant ==
            \E i \in 1..Len(currentGrants) :
                /\ currentGrants[i].funderKey = grantToUpdate.funderKey
                /\ normalizeGrantId(currentGrants[i].grantId) = normalizedGrantId
        updatedGrants ==
            [i \in 1..Len(currentGrants) |->
                IF i = o.index + 1
                THEN [currentGrants[i] EXCEPT !.grantId = normalizedGrantId]
                ELSE currentGrants[i]]
    IN  IF o.index < 0 \/ o.index >= Len(currentGrants)
        THEN Throw
        ELSE IF existingGrant
        THEN Throw
        ELSE Return([pmc EXCEPT !.grants = updatedGrants])

\* o.index is the 0-based position of the form
UpdateGrantIdFn(pmc, o) ==
    LET migratedMetadata == ensureGrantsStructure(pmc)
        currentGrants == migratedMetadata.grants
        grantToUpdate == currentGrants[o.index + 1]
        normalizedGrantId == normalizeGrantId(o.grantId)
        existingGrant ==
            \E i \in 1..Len(currentGrants) :
                /\ i # o.index + 1
                /\ currentGrants[i].funderKey = grantToUpdate.funderKey
                /\ normalizeGrantId(currentGrants[i].grantId) = normalizedGrantId
        updatedGrants ==
            [i \in 1..Len(currentGrants) |->
                IF i = o.index + 1
                THEN [currentGrants[i] EXCEPT !.grantId = normalizedGrantId]
                ELSE currentGrants[i]]
    IN  IF o.index < 0 \/ o.index >= Len(currentGrants)
        THEN Throw
        ELSE IF existingGrant
        THEN Throw
        ELSE Return([migratedMetadata EXCEPT !.grants = updatedGrants])

\* as SetInitialHHMIGrantFn, but the HHMI entry that exists is replaced by the
\* new one, id and all
SetInitialHHMIGrantFnNewId(pmc, o) ==
    LET currentGrants == pmc.grants
        hhmiGrantIndex == FindIndex({i \in DOMAIN currentGrants : IsHhmi(currentGrants[i])})
        newGrant ==
            [id |-> o.uuid,
             funderKey |-> "hhmi",
             grantId |-> normalizeGrantId(o.grantId),
             investigatorName |-> o.investigatorName,
             uniqueId |-> o.uniqueId]
    IN  IF hhmiGrantIndex # 0
        THEN Return([pmc EXCEPT !.grants[hhmiGrantIndex] = newGrant])
        ELSE Return([pmc EXCEPT !.grants = <<newGrant>> \o currentGrants])

SetInitialHHMIGrantFn(pmc, o) ==
    LET migratedMetadata == ensureGrantsStructure(pmc)
        currentGrants == migratedMetadata.grants
        hhmiGrantIndex == FindIndex({i \in DOMAIN currentGrants : IsHhmi(currentGrants[i])})
        newGrant ==
            [id |-> o.uuid,
             funderKey |-> "hhmi",
             grantId |-> normalizeGrantId(o.grantId),
             investigatorName |-> o.investigatorName,
             uniqueId |-> o.uniqueId]
    IN  IF hhmiGrantIndex # 0
        THEN Return([migratedMetadata EXCEPT
                 !.grants[hhmiGrantIndex] =
                     [id |-> currentGrants[hhmiGrantIndex].id,
                      funderKey |-> "hhmi",
                      grantId |-> normalizeGrantId(o.grantId),
                      investigatorName |-> o.investigatorName,
                      uniqueId |-> o.uniqueId]])
        ELSE Return([migratedMetadata EXCEPT !.grants = <<newGrant>> \o currentGrants])

ClearInitialHHMIGrantFn(pmc, o) ==
    LET migratedMetadata == ensureGrantsStructure(pmc)
        currentGrants == migratedMetadata.grants
        Matches(g) == g.funderKey = "hhmi" /\ g.uniqueId = o.uniqueId
        hhmiGrantIndex == FindIndex({i \in DOMAIN currentGrants : Matches(currentGrants[i])})
    IN  IF hhmiGrantIndex = 0
        THEN Return(migratedMetadata)
        ELSE Return([migratedMetadata EXCEPT
                 !.grants = RemoveAt(currentGrants, hhmiGrantIndex)])

RemoveFunderAsGrantFn(pmc, o) ==
    LET migratedMetadata == ensureGrantsStructure(pmc)
        currentGrants == migratedMetadata.grants
        IsFunder(g) == g.funderKey = o.funderKey
        grantIndex == FindIndex({i \in DOMAIN currentGrants : IsFunder(currentGrants[i])})
        hhmiGrants == SelectSeq(currentGrants, IsHhmi)
        updatedGrants == RemoveAt(currentGrants, grantIndex)
        finalGrants == ensureHhmiFirst(updatedGrants)
    IN  IF grantIndex = 0
        THEN Throw
        ELSE IF o.funderKey = "hhmi" /\ Len(hhmiGrants) = 1
        THEN Throw
        ELSE IF Len(updatedGrants) = 0
        THEN Throw
        ELSE Return([migratedMetadata EXCEPT !.grants = finalGrants])

----------------------------------------------------------------------------
(* The metadata adapter *)

\* as PatchFn, but the stored grants are not carried over
PatchFnFromDefaults(pmc, o) ==
    Return([k \in DOMAIN pmc |->
               IF k \in DOMAIN o.patch THEN o.patch[k]
               ELSE IF k = "grants" THEN <<>> ELSE pmc[k]])

\* safelyPatchPMCMetadata's transform: each supplied key replaces the stored
\* one, every other key of the pmc document is kept
PatchFn(pmc, o) ==
    Return([k \in DOMAIN pmc |->
               IF k \in DOMAIN o.patch THEN o.patch[k] ELSE pmc[k]])

IsPatch(o) == o.kind \in {"patch", "confirm"}

\* safelyUpdatePMCMetadata's transform: updateFn applied to the pmc document
\* the store hands in
UpdateFn(pmc, o) ==
    CASE o.kind = "add" -> AddGrantFn(pmc, o)
      [] o.kind = "remove" -> RemoveGrantFn(pmc, o)
      [] o.kind = "update" -> UpdateGrantIdFn(pmc, o)
      [] o.kind = "setInitial" -> SetInitialHHMIGrantFn(pmc, o)
      [] o.kind = "clearInitial" -> ClearInitialHHMIGrantFn(pmc, o)
      [] o.kind = "removeFunder" -> RemoveFunderAsGrantFn(pmc, o)

Transform(pmc, o) == IF IsPatch(o) THEN PatchFn(pmc, o) ELSE UpdateFn(pmc, o)

\* whether the adapter writes WorkVersion.title after the store update
WritesTitle(o, before, after) ==
    IF IsPatch(o)
    THEN "title" \in DOMAIN o.patch
    ELSE before.title # after.title

\* the title the adapter writes
TitleToWrite(o, after) ==
    LET t == IF IsPatch(o) THEN o.patch.title ELSE after.title
    IN  IF Truthy(t) THEN t ELSE DefaultTitle

\* as Caught, but the error leaves the adapter as an exception
Rethrown(reason) == [res |-> "raised", why |-> reason]

\* the catch block: whatever was thrown becomes a general-error result
Caught(reason) == [res |-> "err", why |-> reason]

\* write attempts the store makes before it gives up on a conflicting update
RetryBudget == 2

NoOp ==
    [kind |-> "none", uuid |-> 0, funderKey |-> Undef, grantId |-> <<>>,
     investigatorName |-> Undef, uniqueId |-> Undef, id |-> 0, index |-> 0,
     patch |-> <<>>, workVersionId |-> WorkVersionId]

NoSnap == [read |-> FALSE, pmc |-> [undefined |-> TRUE], ver |-> 0]

\* a call of the adapter begins: the arguments are bound, nothing is read yet
Begin(p, o) ==
    /\ pc[p] = "idle"
    /\ nops < budget
    /\ nops' = nops + 1
    /\ op' = [op EXCEPT ![p] = o]
    /\ pc' = [pc EXCEPT ![p] = "read"]
    /\ snap' = [snap EXCEPT ![p] = NoSnap]
    /\ out' = [out EXCEPT ![p] = Throw]
    /\ attempts' = [attempts EXCEPT ![p] = 0]
    /\ res' = [res EXCEPT ![p] = "none"]
    /\ why' = [why EXCEPT ![p] = "none"]
    /\ UNCHANGED <<wvPmc, wvVersion, wvTitle, wvVars, subVars, clock, confirmLocals,
                   budget, signalVars, pureVars, lifeVars>>

\* the adapter returns r to its caller; confirmPMC drops the result and goes on
Finish(p, r) ==
    /\ res' = [res EXCEPT ![p] = IF op[p].kind = "confirm" THEN "none" ELSE r.res]
    /\ why' = [why EXCEPT ![p] = r.why]
    /\ pc' = [pc EXCEPT ![p] = IF op[p].kind = "confirm" /\ r.res # "raised"
                                THEN "find" ELSE "idle"]

Ok == [res |-> "ok", why |-> "none"]

\* the identifier generator: an id no entry of the document has yet
uuidv7 == wvVersion + 1

\* the store reads the document and its tag and runs the transform on it; a
\* work version it does not find is an error thrown to the adapter
StoreRead(p) ==
    /\ pc[p] = "read"
    /\ IF op[p].workVersionId # WorkVersionId
       THEN /\ Finish(p, Caught("not found"))
            /\ UNCHANGED <<snap, out>>
       ELSE LET r == Transform(wvPmc, [op[p] EXCEPT !.uuid = uuidv7])
            IN  /\ snap' = [snap EXCEPT ![p] = [read |-> TRUE, pmc |-> wvPmc,
                                                ver |-> wvVersion]]
                /\ out' = [out EXCEPT ![p] = r]
                /\ IF r.ok
                   THEN /\ pc' = [pc EXCEPT ![p] = "write"]
                        /\ UNCHANGED <<res, why>>
                   ELSE Finish(p, Caught("rejected"))
    /\ UNCHANGED <<wvPmc, wvVersion, wvTitle, wvVars, subVars, clock, confirmLocals,
                   op, attempts, nops, budget, signalVars, pureVars, lifeVars>>

\* the conditional write finds the tag it read: the document is committed
StoreCommit(p) ==
    /\ pc[p] = "write"
    /\ wvVersion = snap[p].ver
    /\ wvPmc' = out[p].pmc
    /\ wvVersion' = wvVersion + 1
    /\ IF WritesTitle(op[p], snap[p].pmc, out[p].pmc)
       THEN /\ pc' = [pc EXCEPT ![p] = "title"]
            /\ UNCHANGED <<res, why>>
       ELSE Finish(p, Ok)
    /\ UNCHANGED <<wvTitle, wvVars, subVars, clock, confirmLocals, op, snap, out,
                   attempts, nops, budget, signalVars, pureVars, lifeVars>>

\* as StoreConflict, but the store never gives up
StoreConflictRetriesOn(p) ==
    /\ pc[p] = "write"
    /\ wvVersion # snap[p].ver
    /\ attempts' = [attempts EXCEPT ![p] = attempts[p] + 1]
    /\ pc' = [pc EXCEPT ![p] = "read"]
    /\ UNCHANGED <<res, why>>
    /\ UNCHANGED <<wvPmc, wvVersion, wvTitle, wvVars, subVars, clock, confirmLocals,
                   op, snap, out, nops, budget, signalVars, pureVars, lifeVars>>

\* the conditional write finds another tag: retry, or give up
StoreConflict(p) ==
    /\ pc[p] = "write"
    /\ wvVersion # snap[p].ver
    /\ attempts' = [attempts EXCEPT ![p] = attempts[p] + 1]
    /\ IF attempts[p] + 1 >= RetryBudget
       THEN Finish(p, Caught("store"))
       ELSE /\ pc' = [pc EXCEPT ![p] = "read"]
            /\ UNCHANGED <<res, why>>
    /\ UNCHANGED <<wvPmc, wvVersion, wvTitle, wvVars, subVars, clock, confirmLocals,
                   op, snap, out, nops, budget, signalVars, pureVars, lifeVars>>

\* prisma.workVersion.update of the title, after the store update
TitleWrite(p) ==
    /\ pc[p] = "title"
    /\ wvTitle' = TitleToWrite(op[p], out[p].pmc)
    /\ Finish(p, Ok)
    /\ UNCHANGED <<wvPmc, wvVersion, wvVars, subVars, clock, confirmLocals, op, snap,
                   out, attempts, nops, budget, signalVars, pureVars, lifeVars>>

\* prisma.workVersion.update of the title throws: the catch block makes it
\* an error result, after the store update was committed
TitleWriteFail(p) ==
    /\ pc[p] = "title"
    /\ Finish(p, Caught("title"))
    /\ UNCHANGED <<wvPmc, wvVersion, wvTitle, wvVars, subVars, clock, confirmLocals,
                   op, snap, out, attempts, nops, budget, signalVars, pureVars,
                   lifeVars>>

----------------------------------------------------------------------------
(* The calls of the route layer *)

CallAddGrant(p) ==
    \E fk \in FunderKeys, g \in RawGrantIds, d \in HhmiDetails :
        Begin(p, [NoOp EXCEPT !.kind = "add", !.funderKey = fk, !.grantId = g,
                              !.investigatorName = d.investigatorName,
                              !.uniqueId = d.uniqueId])

CallRemoveGrant(p) ==
    \E id \in 1..budget :
        Begin(p, [NoOp EXCEPT !.kind = "remove", !.id = id])

\* the form of updateGrantId sends the position of an entry of the list the
\* caller was shown and the new grant id; o.id keeps the id of the entry that
\* was at that position when the form was sent (0 when there was none), which
\* the form does not send and the transform does not read
CallUpdateGrantId(p) ==
    \E i \in 0..(budget - 1), g \in RawGrantIds :
        LET shown == IF "grants" \in DOMAIN wvPmc THEN wvPmc.grants ELSE <<>>
            seen == IF i + 1 \in DOMAIN shown THEN shown[i + 1].id ELSE 0
        IN  Begin(p, [NoOp EXCEPT !.kind = "update", !.index = i, !.grantId = g,
                                  !.id = seen])

CallSetInitialHHMIGrant(p) ==
    \E g \in RawGrantIds, d \in HhmiDetails :
        Begin(p, [NoOp EXCEPT !.kind = "setInitial", !.grantId = g,
                              !.investigatorName = d.investigatorName,
                              !.uniqueId = d.uniqueId])

CallClearInitialHHMIGrant(p) ==
    \E u \in UniqueIds :
        Begin(p, [NoOp EXCEPT !.kind = "clearInitial", !.uniqueId = u])

CallRemoveFunderAsGrant(p) ==
    \E fk \in FunderKeys :
        Begin(p, [NoOp EXCEPT !.kind = "removeFunder", !.funderKey = fk])

\* updatePublicationTitle, setPreviewDeposit, unsetPreviewDeposit
Patches == {[title |-> t] : t \in TitleInputs} \cup {[previewed |-> TRUE]}

CallPatch(p) ==
    \E m \in Patches : Begin(p, [NoOp EXCEPT !.kind = "patch", !.patch = m])

\* a patch and a grant operation for a work version id that has no record
CallWithMissingWorkVersion(p) ==
    \/ Begin(p, [NoOp EXCEPT !.kind = "patch", !.patch = [previewed |-> TRUE],
                             !.workVersionId = MissingWorkVersionId])
    \/ Begin(p, [NoOp EXCEPT !.kind = "clearInitial", !.uniqueId = "u1",
                             !.workVersionId = MissingWorkVersionId])

----------------------------------------------------------------------------
(* confirmPMC *)

createPMCMetadataDescription(pmc) ==
    <<"A PMC deposit of an AAM from the journal", pmc.journalName,
      "funded by", "None specified">>

formatPMCAuthors(pmc) ==
    IF Truthy(pmc.ownerFirstName) /\ Truthy(pmc.ownerLastName)
    THEN << <<pmc.ownerFirstName, pmc.ownerLastName>> >>
    ELSE <<>>

hyphenatedFromDate(d) == <<"date", d>>

\* a column of an update's data: an undefined value leaves the column as it is
Column(old, new) == IF new = Undef THEN old ELSE new

\* the first statement of confirmPMC is the patch {confirmed: true}
CallConfirmPMC(p) ==
    Begin(p, [NoOp EXCEPT !.kind = "confirm", !.patch = [confirmed |-> TRUE]])

\* findUnique of the work version, then description, authors and currentDate
ConfirmFind(p) ==
    /\ pc[p] = "find"
    /\ cPmc' = [cPmc EXCEPT ![p] = wvPmc]
    /\ cDate' = [cDate EXCEPT ![p] = hyphenatedFromDate(clock)]
    /\ pc' = [pc EXCEPT ![p] = "tx"]
    /\ UNCHANGED <<wvPmc, wvVersion, wvTitle, wvVars, subVars, clock, op, snap, out,
                   attempts, res, why, nops, budget, signalVars, pureVars, lifeVars>>

\* the submission versions counted and found by the transaction
PMCSubmissionVersions == DOMAIN svs

\* the transaction's callback runs to its end (by either early return or the
\* last statement) and the transaction commits; confirmPMC then returns success
ConfirmTx(p) ==
    /\ pc[p] = "tx"
    /\ wvDraft' = FALSE
    /\ wvTitle' = Column(wvTitle, cPmc[p].title)
    /\ wvDescription' = createPMCMetadataDescription(cPmc[p])
    /\ wvAuthors' = formatPMCAuthors(cPmc[p])
    /\ wvDate' = Column(wvDate, cPmc[p].doiPublishedDate)
    /\ wvDoi' = Column(wvDoi, cPmc[p].doiUrl)
    /\ LET count == Cardinality(PMCSubmissionVersions)
       IN  IF count = 0 \/ count > 1
           THEN UNCHANGED <<svs, subDate>>
           ELSE LET submissionVersion == CHOOSE s \in PMCSubmissionVersions : TRUE
                IN  /\ svs' = [svs EXCEPT ![submissionVersion] =
                                  [status |-> "PENDING", date_published |-> cDate[p]]]
                    /\ subDate' = cDate[p]
    /\ pc' = [pc EXCEPT ![p] = "idle"]
    /\ res' = [res EXCEPT ![p] = "ok"]
    /\ UNCHANGED <<wvPmc, wvVersion, clock, op, snap, out, attempts, why,
                   confirmLocals, nops, budget, signalVars, pureVars, lifeVars>>

\* as ConfirmTxFail, but the work version update outlives the failure
ConfirmTxFailPartial(p) ==
    /\ pc[p] = "tx"
    /\ wvDraft' = FALSE
    /\ pc' = [pc EXCEPT ![p] = "idle"]
    /\ res' = [res EXCEPT ![p] = "raised"]
    /\ why' = [why EXCEPT ![p] = "store"]
    /\ UNCHANGED <<wvPmc, wvVersion, wvTitle, wvDescription, wvAuthors, wvDate, wvDoi,
                   subVars, clock, op, snap, out, attempts, confirmLocals, nops,
                   budget, signalVars, pureVars, lifeVars>>

\* a statement of the transaction fails: the transaction rolls back and the
\* failure leaves confirmPMC as an exception
ConfirmTxFail(p) ==
    /\ pc[p] = "tx"
    /\ pc' = [pc EXCEPT ![p] = "idle"]
    /\ res' = [res EXCEPT ![p] = "raised"]
    /\ why' = [why EXCEPT ![p] = "store"]
    /\ UNCHANGED <<wvPmc, wvVersion, wvTitle, wvVars, subVars, clock, op, snap, out,
                   attempts, confirmLocals, nops, budget, signalVars, pureVars, lifeVars>>

\* the date passes
Tick ==
    /\ clock < MaxClock
    /\ clock' = clock + 1
    /\ UNCHANGED <<wvPmc, wvVersion, wvTitle, wvVars, subVars, pc, op, snap, out,
                   attempts, res, why, confirmLocals, nops, budget, signalVars, pureVars, lifeVars>>

----------------------------------------------------------------------------
(* Version cloning: clonePMCVersion and createNewVersions.  The WorkVersion *)
(* of the variables above is the first version of its Work; its rows and    *)
(* the rows created by cloning belong to one Submission.                    *)

SubmissionId == "sub1"

\* identifiers and storage keys the generator hands out, in order
FreshWorkVersionIds == <<"wv2", "wv3", "wv4", "wv5", "wv6">>
FreshSubmissionVersionIds == <<"s3", "s4", "s5", "s6", "s7">>
FreshCdnKeys == <<"k1", "k2", "k3", "k4", "k5">>

\* the first WorkVersion as a row
FirstWV ==
    [id |-> WorkVersionId, title |-> wvTitle, description |-> wvDescription,
     authors |-> wvAuthors, date |-> wvDate, doi |-> wvDoi, cdn |-> "cdn1",
     cdn_key |-> "k0", draft |-> wvDraft, pmc |-> wvPmc]

\* a SubmissionVersion of the first WorkVersion as a row
FirstSV(s) ==
    [id |-> s, submission_id |-> SubmissionId, work_version_id |-> WorkVersionId,
     status |-> svs[s].status, date_published |-> svs[s].date_published,
     messages |-> svMessages[s]]

\* every SubmissionVersion row of the Submission
SubmissionVersionRows ==
    {FirstSV(s) : s \in DOMAIN svs} \cup {clones[i].sv : i \in DOMAIN clones}

\* every WorkVersion row of the Work
WorkVersionRows == {FirstWV} \cup {clones[i].wv : i \in DOMAIN clones}

SubmissionVersionIds == {r.id : r \in SubmissionVersionRows}

\* dbGetSubmissionVersion: the row with its work_version included
dbGetSubmissionVersion(id) ==
    LET sv == CHOOSE r \in SubmissionVersionRows : r.id = id
    IN  [sv |-> sv,
         wv |-> CHOOSE w \in WorkVersionRows : w.id = sv.work_version_id]

NoLoc ==
    [ref |-> Undef, found |-> FALSE, row |-> Undef, target |-> Undef,
     messageId |-> Undef, type |-> Undef, fromStatus |-> Undef]

\* the ids a clonePMCVersion call may name: existing ones and one that is not
CloneRefs == {"s1", "s2", "s3"}

CallClonePMCVersion(p) ==
    \E id \in CloneRefs :
        /\ pc[p] = "idle"
        /\ nops < budget
        /\ nops' = nops + 1
        /\ op' = [op EXCEPT ![p] = [NoOp EXCEPT !.kind = "clone"]]
        /\ loc' = [loc EXCEPT ![p] = [NoLoc EXCEPT !.ref = id]]
        /\ pc' = [pc EXCEPT ![p] = "cloneGet"]
        /\ res' = [res EXCEPT ![p] = "none"]
        /\ why' = [why EXCEPT ![p] = "none"]
        /\ UNCHANGED <<wvPmc, wvVersion, wvTitle, wvVars, subVars, clock, snap, out,
                       attempts, confirmLocals, budget, signalVars, pureVars, clones, activities,
                       svMessages>>

\* the reference is read; a missing one ends the call with an exception
CloneGet(p) ==
    /\ pc[p] = "cloneGet"
    /\ IF loc[p].ref \in SubmissionVersionIds
       THEN /\ loc' = [loc EXCEPT ![p].found = TRUE,
                                  ![p].row = dbGetSubmissionVersion(loc[p].ref)]
            /\ pc' = [pc EXCEPT ![p] = "cloneCheck"]
            /\ UNCHANGED <<res, why>>
       ELSE /\ pc' = [pc EXCEPT ![p] = "idle"]
            /\ res' = [res EXCEPT ![p] = "raised"]
            /\ why' = [why EXCEPT ![p] = "not found"]
            /\ UNCHANGED loc
    /\ UNCHANGED <<wvPmc, wvVersion, wvTitle, wvVars, subVars, clock, op, snap, out,
                   attempts, confirmLocals, nops, budget, signalVars, pureVars, clones, activities,
                   svMessages>>

\* findFirst of a SubmissionVersion of the Submission in DRAFT
ExistingIncompleteVersion ==
    \E r \in SubmissionVersionRows : r.status = "DRAFT"

\* as CloneCheck, but a draft in preparation does not stop the call
CloneCheckSkipped(p) ==
    /\ pc[p] = "cloneCheck"
    /\ pc' = [pc EXCEPT ![p] = "cloneCreate"]
    /\ UNCHANGED <<res, why>>
    /\ UNCHANGED <<wvPmc, wvVersion, wvTitle, wvVars, subVars, clock, op, snap, out,
                   attempts, confirmLocals, nops, budget, signalVars, pureVars, lifeVars>>

\* the check for a draft in preparation; one found ends the call with an
\* exception
CloneCheck(p) ==
    /\ pc[p] = "cloneCheck"
    /\ IF ExistingIncompleteVersion
       THEN /\ pc' = [pc EXCEPT ![p] = "idle"]
            /\ res' = [res EXCEPT ![p] = "raised"]
            /\ why' = [why EXCEPT ![p] = "already being cloned"]
       ELSE /\ pc' = [pc EXCEPT ![p] = "cloneCreate"]
            /\ UNCHANGED <<res, why>>
    /\ UNCHANGED <<wvPmc, wvVersion, wvTitle, wvVars, subVars, clock, op, snap, out,
                   attempts, confirmLocals, nops, budget, signalVars, pureVars, lifeVars>>

\* as NewWorkVersion, but the draft flag is the reference's
NewWorkVersionDraftCopied(ref, n) ==
    [id |-> FreshWorkVersionIds[n], title |-> ref.wv.title,
     description |-> ref.wv.description, authors |-> ref.wv.authors,
     date |-> ref.wv.date, doi |-> ref.wv.doi, cdn |-> ref.wv.cdn,
     cdn_key |-> FreshCdnKeys[n], draft |-> ref.wv.draft,
     pmc |-> [ref.wv.pmc EXCEPT !.previewed = FALSE, !.confirmed = FALSE]]

\* as NewWorkVersion, but the metadata document is the reference's as it is
NewWorkVersionFlagsKept(ref, n) ==
    [id |-> FreshWorkVersionIds[n], title |-> ref.wv.title,
     description |-> ref.wv.description, authors |-> ref.wv.authors,
     date |-> ref.wv.date, doi |-> ref.wv.doi, cdn |-> ref.wv.cdn,
     cdn_key |-> FreshCdnKeys[n], draft |-> TRUE, pmc |-> ref.wv.pmc]

\* tx.workVersion.create: the n-th WorkVersion made by cloning
NewWorkVersion(ref, n) ==
    [id |-> FreshWorkVersionIds[n], title |-> ref.wv.title,
     description |-> ref.wv.description, authors |-> ref.wv.authors,
     date |-> ref.wv.date, doi |-> ref.wv.doi, cdn |-> ref.wv.cdn,
     cdn_key |-> FreshCdnKeys[n], draft |-> TRUE,
     pmc |-> [ref.wv.pmc EXCEPT !.previewed = FALSE, !.confirmed = FALSE]]

\* tx.submissionVersion.create: the n-th SubmissionVersion made by cloning
NewSubmissionVersion(ref, n) ==
    [id |-> FreshSubmissionVersionIds[n], submission_id |-> ref.sv.submission_id,
     work_version_id |-> FreshWorkVersionIds[n], status |-> "DRAFT",
     date_published |-> ref.sv.date_published, messages |-> <<>>]

Activity(type, status, wv, sv, date) ==
    [activity_type |-> type, status |-> status, work_version_id |-> wv,
     submission_version_id |-> sv, date_created |-> date]

\* the two tx.activity.create of createNewVersions
CloneActivities(nwv, nsv, timestamp) ==
    <<Activity("WORK_VERSION_ADDED", "New version created from cloning",
               nwv.id, Undef, timestamp),
      Activity("SUBMISSION_VERSION_ADDED", "DRAFT", Undef, nsv.id, timestamp)>>

\* createNewVersions: the transaction commits its four creates
CloneCreate(p) ==
    /\ pc[p] = "cloneCreate"
    /\ LET n == Len(clones) + 1
           nwv == NewWorkVersion(loc[p].row, n)
           nsv == NewSubmissionVersion(loc[p].row, n)
       IN  /\ clones' = Append(clones, [wv |-> nwv, sv |-> nsv])
           /\ activities' = activities \o CloneActivities(nwv, nsv, clock)
    /\ pc' = [pc EXCEPT ![p] = "idle"]
    /\ res' = [res EXCEPT ![p] = "ok"]
    /\ UNCHANGED <<wvPmc, wvVersion, wvTitle, wvVars, subVars, clock, op, snap, out,
                   attempts, why, confirmLocals, nops, budget, signalVars, pureVars, svMessages, loc>>

\* createNewVersions: the transaction fails and rolls back
CloneCreateFail(p) ==
    /\ pc[p] = "cloneCreate"
    /\ pc' = [pc EXCEPT ![p] = "idle"]
    /\ res' = [res EXCEPT ![p] = "raised"]
    /\ why' = [why EXCEPT ![p] = "store"]
    /\ UNCHANGED <<wvPmc, wvVersion, wvTitle, wvVars, subVars, clock, op, snap, out,
                   attempts, confirmLocals, nops, budget, signalVars, pureVars, lifeVars>>

----------------------------------------------------------------------------
(* Inbound signals: updateSubmissionMetadataAndStatusIfChanged and the      *)
(* functions it calls, for the first WorkVersion.                           *)

TargetStatuses == {"DEPOSITED", "FAILED"}
MessageIds == {"m1", "m2"}
\* emailResult.status
ResultStatuses == {"success", "warning", "error"}

\* findFirst of the SubmissionVersion of the work version
FoundSubmissionVersion == CHOOSE s \in DOMAIN svs : TRUE

CallUpdateSubmissionMetadataAndStatusIfChanged(p) ==
    \E t \in TargetStatuses, m \in MessageIds, r \in ResultStatuses :
        /\ pc[p] = "idle"
        /\ nops < budget
        /\ nops' = nops + 1
        /\ op' = [op EXCEPT ![p] = [NoOp EXCEPT !.kind = "signal"]]
        /\ loc' = [loc EXCEPT ![p] = [NoLoc EXCEPT !.target = t, !.messageId = m,
                                                  !.type = r]]
        /\ pc' = [pc EXCEPT ![p] = "signalRead"]
        /\ res' = [res EXCEPT ![p] = "none"]
        /\ why' = [why EXCEPT ![p] = "none"]
        /\ UNCHANGED <<wvPmc, wvVersion, wvTitle, wvVars, subVars, clock, snap, out,
                       attempts, confirmLocals, budget, signalVars, pureVars, clones,
                       activities, svMessages>>

\* updateSubmissionStatusOnReceivingEmail called on its own
CallUpdateSubmissionStatusOnReceivingEmail(p) ==
    \E t \in TargetStatuses :
        /\ pc[p] = "idle"
        /\ nops < budget
        /\ nops' = nops + 1
        /\ op' = [op EXCEPT ![p] = [NoOp EXCEPT !.kind = "status"]]
        /\ loc' = [loc EXCEPT ![p] = [NoLoc EXCEPT !.target = t]]
        /\ pc' = [pc EXCEPT ![p] = "signalStatus"]
        /\ res' = [res EXCEPT ![p] = "none"]
        /\ why' = [why EXCEPT ![p] = "none"]
        /\ UNCHANGED <<wvPmc, wvVersion, wvTitle, wvVars, subVars, clock, snap, out,
                       attempts, confirmLocals, budget, signalVars, pureVars, clones,
                       activities, svMessages>>

\* as IsDuplicateStatus, but only the current status is looked at
IsDuplicateStatusCurrentOnly(sv, targetStatus) ==
    svs[sv].status = targetStatus

\* the duplicate check: the current status is the target, or a message
\* recorded before led to it
IsDuplicateStatus(sv, targetStatus) ==
    LET isCurrentStatusDuplicate == svs[sv].status = targetStatus
        existingMessages == svMessages[sv]
        hasPreviousMessageWithTargetStatus ==
            \E i \in DOMAIN existingMessages :
                existingMessages[i].toStatus = targetStatus
    IN  isCurrentStatusDuplicate \/ hasPreviousMessageWithTargetStatus

\* a missing submission version raises
SignalRaise(p) ==
    /\ pc' = [pc EXCEPT ![p] = "idle"]
    /\ res' = [res EXCEPT ![p] = "raised"]
    /\ why' = [why EXCEPT ![p] = "not found"]

\* the submission version that was found is kept, and the duplicate check is
\* made on it: a duplicate returns false
SignalReadFound(p) ==
    LET submissionVersion == FoundSubmissionVersion
    IN  /\ loc' = [loc EXCEPT ![p].found = TRUE,
                              ![p].row =
                                  [id |-> submissionVersion,
                                   status |-> svs[submissionVersion].status,
                                   messages |-> svMessages[submissionVersion]]]
        /\ IF IsDuplicateStatus(submissionVersion, loc[p].target)
           THEN /\ pc' = [pc EXCEPT ![p] = "idle"]
                /\ res' = [res EXCEPT ![p] = "skipped"]
                /\ UNCHANGED why
           ELSE /\ pc' = [pc EXCEPT ![p] = "signalMessage"]
                /\ UNCHANGED <<res, why>>

\* as SignalRead, but a missing submission version is passed over in silence
SignalReadIgnoresMissing(p) ==
    /\ pc[p] = "signalRead"
    /\ IF DOMAIN svs = {}
       THEN /\ pc' = [pc EXCEPT ![p] = "idle"]
            /\ res' = [res EXCEPT ![p] = "skipped"]
            /\ UNCHANGED <<why, loc>>
       ELSE SignalReadFound(p)
    /\ UNCHANGED <<wvPmc, wvVersion, wvTitle, wvVars, subVars, clock, op, snap, out,
                   attempts, confirmLocals, nops, budget, signalVars, pureVars, clones,
                   activities, svMessages>>

\* updateSubmissionMetadataAndStatusIfChanged reads the submission version: a
\* missing one raises
SignalRead(p) ==
    /\ pc[p] = "signalRead"
    /\ IF DOMAIN svs = {}
       THEN /\ SignalRaise(p)
            /\ UNCHANGED loc
       ELSE SignalReadFound(p)
    /\ UNCHANGED <<wvPmc, wvVersion, wvTitle, wvVars, subVars, clock, op, snap, out,
                   attempts, confirmLocals, nops, budget, signalVars, pureVars, clones,
                   activities, svMessages>>

\* Array.prototype.sort by timestamp: stable, so a message goes behind the
\* ones that are not later than it
RECURSIVE SortedInsert(_, _)
SortedInsert(ms, m) ==
    IF ms = <<>> THEN <<m>>
    ELSE IF ms[Len(ms)].timestamp <= m.timestamp THEN Append(ms, m)
    ELSE Append(SortedInsert(SubSeq(ms, 1, Len(ms) - 1), m), ms[Len(ms)])

\* as overallStatus, but of the newest message alone
overallStatusOfLast(updatedMessages) ==
    LET last == updatedMessages[Len(updatedMessages)].type
    IN  IF last = "info" THEN "ok" ELSE last

\* the overall status of a history: error over warning over ok
overallStatus(updatedMessages) ==
    LET hasErrors == \E i \in DOMAIN updatedMessages :
                         updatedMessages[i].type = "error"
        hasWarnings == \E i \in DOMAIN updatedMessages :
                           updatedMessages[i].type = "warning"
    IN  IF hasErrors THEN "error" ELSE IF hasWarnings THEN "warning" ELSE "ok"

\* updateSubmissionVersionMetadata: the submission version is read again and
\* the message and the overall status written by the metadata update
SignalMessage(p) ==
    /\ pc[p] = "signalMessage"
    /\ IF DOMAIN svs = {}
       THEN /\ SignalRaise(p)
            /\ UNCHANGED <<svMessages, svSeverity>>
       ELSE LET submissionVersion == FoundSubmissionVersion
                newMessage ==
                    [type |-> IF loc[p].type = "success" THEN "info"
                              ELSE loc[p].type,
                     timestamp |-> clock,
                     fromStatus |-> svs[submissionVersion].status,
                     toStatus |-> loc[p].target,
                     messageId |-> loc[p].messageId]
                updatedMessages ==
                    SortedInsert(svMessages[submissionVersion], newMessage)
            IN  /\ svMessages' = [svMessages EXCEPT
                                     ![submissionVersion] = updatedMessages]
                /\ svSeverity' = [svSeverity EXCEPT
                                     ![submissionVersion] =
                                         overallStatus(updatedMessages)]
                /\ pc' = [pc EXCEPT ![p] = "signalStatus"]
                /\ UNCHANGED <<res, why>>
    /\ UNCHANGED <<wvPmc, wvVersion, wvTitle, wvVars, subVars, clock, op, snap, out,
                   attempts, confirmLocals, nops, budget, notifications, message,
                   pureVars, clones, activities, loc>>

\* as sendSlackNotification, but a failed dispatch is thrown to the caller
sendSlackNotificationRejects(delivered, status, submissionVersionId) ==
    [event |-> [status |-> status, submissionVersionId |-> submissionVersionId],
     logged |-> FALSE,
     thrown |-> ~delivered]

\* ctx.sendSlackNotification: the event is handed to the notification channel,
\* which delivers it or fails; a failure is logged by the channel and not
\* thrown
sendSlackNotification(delivered, status, submissionVersionId) ==
    [event |-> [status |-> status, submissionVersionId |-> submissionVersionId],
     logged |-> ~delivered,
     thrown |-> FALSE]

\* updateSubmissionStatusOnReceivingEmail: the status is written, with its
\* Activity record, the notification is sent, and the caller returns true
SignalStatus(p) ==
    /\ pc[p] = "signalStatus"
    /\ IF DOMAIN svs = {}
       THEN /\ SignalRaise(p)
            /\ UNCHANGED <<svs, activities, notifications>>
       ELSE \E delivered \in BOOLEAN :
            LET submissionVersion == FoundSubmissionVersion
                sent == sendSlackNotification(delivered, loc[p].target,
                                              submissionVersion)
            IN  /\ svs' = [svs EXCEPT ![submissionVersion].status = loc[p].target]
                /\ activities' = Append(activities,
                       Activity("SUBMISSION_VERSION_STATUS_CHANGE", loc[p].target,
                                Undef, submissionVersion, clock))
                /\ notifications' = Append(notifications, sent.event)
                /\ pc' = [pc EXCEPT ![p] = "idle"]
                /\ res' = [res EXCEPT ![p] = IF sent.thrown THEN "raised"
                                             ELSE IF op[p].kind = "signal"
                                             THEN "applied" ELSE "ok"]
                /\ why' = [why EXCEPT ![p] = IF sent.thrown THEN "notification"
                                             ELSE IF sent.logged
                                             THEN "notification logged"
                                             ELSE why[p]]
    /\ UNCHANGED <<wvPmc, wvVersion, wvTitle, wvVars, subDate, clock, op, snap, out,
                   attempts, confirmLocals, nops, budget, svSeverity, message, pureVars,
                   clones, svMessages, loc>>

\* $updateSubmissionVersion throws: the status is not written, no Activity
\* record is made, no notification is sent, and the error leaves the caller
SignalStatusFail(p) ==
    /\ pc[p] = "signalStatus"
    /\ DOMAIN svs # {}
    /\ pc' = [pc EXCEPT ![p] = "idle"]
    /\ res' = [res EXCEPT ![p] = "raised"]
    /\ why' = [why EXCEPT ![p] = "status write"]
    /\ UNCHANGED <<wvPmc, wvVersion, wvTitle, wvVars, subVars, clock, op, snap, out,
                   attempts, confirmLocals, nops, budget, signalVars, pureVars,
                   lifeVars>>

\* the status and the results a caller of updateMessageStatus may pass
MessageStatuses == {"SUCCESS", "ERROR"}
MessageResults == {[a |-> 1], [b |-> 1], [a |-> 2, b |-> 2]}

\* { ...current, ...results }: the keys of both, those of results on top
SpreadResults(current, results) ==
    [k \in DOMAIN current \cup DOMAIN results |->
        IF k \in DOMAIN results THEN results[k] ELSE current[k]]

CallUpdateMessageStatus(p) ==
    \E status \in MessageStatuses, results \in MessageResults :
        /\ pc[p] = "idle"
        /\ nops < budget
        /\ nops' = nops + 1
        /\ op' = [op EXCEPT ![p] = [NoOp EXCEPT !.kind = "message",
                                                !.patch = results]]
        /\ loc' = [loc EXCEPT ![p] = [NoLoc EXCEPT !.target = status]]
        /\ pc' = [pc EXCEPT ![p] = "messageRead"]
        /\ res' = [res EXCEPT ![p] = "none"]
        /\ why' = [why EXCEPT ![p] = "none"]
        /\ UNCHANGED <<wvPmc, wvVersion, wvTitle, wvVars, subVars, clock, snap, out,
                       attempts, confirmLocals, budget, signalVars, pureVars, clones,
                       activities, svMessages>>

\* prisma.message.findUnique: the row is read into current
MessageRead(p) ==
    /\ pc[p] = "messageRead"
    /\ loc' = [loc EXCEPT ![p].found = TRUE, ![p].row = message]
    /\ pc' = [pc EXCEPT ![p] = "messageWrite"]
    /\ UNCHANGED <<wvPmc, wvVersion, wvTitle, wvVars, subVars, clock, op, snap, out,
                   attempts, res, why, confirmLocals, nops, budget, signalVars,
                   pureVars, clones, activities, svMessages>>

\* prisma.message.update: the status and the results spread from current are
\* written
MessageWrite(p) ==
    /\ pc[p] = "messageWrite"
    /\ message' = [status |-> loc[p].target,
                   results |-> SpreadResults(loc[p].row.results, op[p].patch)]
    /\ pc' = [pc EXCEPT ![p] = "idle"]
    /\ res' = [res EXCEPT ![p] = "ok"]
    /\ UNCHANGED <<wvPmc, wvVersion, wvTitle, wvVars, subVars, clock, op, snap, out,
                   attempts, why, confirmLocals, nops, budget, svSeverity,
                   notifications, pureVars, lifeVars>>

\* getActivitiesForSubmissionVersion: the status-change and new-submission
\* records of the submission version; the table is in order of date_created
IsStatusActivity(a) ==
    a.activity_type \in {"SUBMISSION_VERSION_STATUS_CHANGE", "NEW_SUBMISSION"}

getActivitiesForSubmissionVersion(submissionVersionId) ==
    LET Mine(a) == a.submission_version_id = submissionVersionId
                   /\ IsStatusActivity(a)
        found == SelectSeq(activities, Mine)
    IN  [i \in DOMAIN found |-> [status |-> found[i].status,
                                 date |-> found[i].date_created]]

----------------------------------------------------------------------------
(* The transform of safelyPatchPMCMetadata on values of any type.  A value   *)
(* is its type, its literal when it is a scalar, and its own enumerable      *)
(* properties, which are what an object spread copies: the entries of an     *)
(* object, the elements of an array by index, the characters of a string by  *)
(* index, and none for null, undefined and numbers.                          *)

JsUndefined == [t |-> "undefined", s |-> "", o |-> {}]
JsNull == [t |-> "null", s |-> "", o |-> {}]
JsNumber(s) == [t |-> "number", s |-> s, o |-> {}]
JsString(s, chars) ==
    [t |-> "string", s |-> s, o |-> {<<i, chars[i]>> : i \in DOMAIN chars}]
JsArray(elems) ==
    [t |-> "array", s |-> "", o |-> {<<i, elems[i]>> : i \in DOMAIN elems}]
JsObject(entries) == [t |-> "object", s |-> "", o |-> entries]

\* !Array.isArray(v) && typeof v === 'object' && v !== null
IsNonArrayObject(v) == v.t = "object"

PropertyKeys(entries) == {e[1] : e \in entries}

\* { ...a, ...b }
Spread(a, b) ==
    JsObject({e \in a.o : e[1] \notin PropertyKeys(b.o)} \cup b.o)

\* pmc?.[key]
Get(doc, key) == IF key \in DOMAIN doc THEN doc[key] ELSE JsUndefined

\* the value stored under a key of the patch
PatchedValue(existing, incoming) ==
    IF IsNonArrayObject(incoming) THEN Spread(existing, incoming) ELSE incoming

\* the pmc sub-document after Object.keys(metadataPatch).forEach
PatchedDocument(pmc, metadataPatch) ==
    [key \in DOMAIN pmc \cup DOMAIN metadataPatch |->
        IF key \in DOMAIN metadataPatch
        THEN PatchedValue(Get(pmc, key), metadataPatch[key])
        ELSE pmc[key]]

\* values of a key: absent, null, scalars, arrays and objects; indices and
\* keys are strings
PatchValues ==
    {JsNull, JsNumber("7"), JsString("ab", [i \in {"0", "1"} |-> IF i = "0" THEN "a" ELSE "b"]),
     JsArray([i \in {"0"} |-> "x"]),
     JsObject({<<"a", "1">>}), JsObject({<<"a", "2">>, <<"b", "3">>})}

\* pmc documents: key k with any value or absent, key j with a scalar
PatchDocuments ==
    {[key \in {"j"} |-> JsNumber("1")]} \cup
    {[key \in {"j", "k"} |-> IF key = "j" THEN JsNumber("1") ELSE v] :
        v \in PatchValues}

\* patches: key k, with or without key j
PatchInputs ==
    {[key \in {"k"} |-> v] : v \in PatchValues} \cup
    {[key \in {"j", "k"} |-> IF key = "j" THEN JsNumber("2") ELSE v] :
        v \in PatchValues}

\* the store runs the transform of safelyPatchPMCMetadata on the document
ApplyPatch ==
    /\ pureIn.fn = "patch"
    /\ ~pureOut.done
    /\ pureOut' = [done |-> TRUE,
                   pmc |-> PatchedDocument(pureIn.pmc, pureIn.metadataPatch)]
    /\ UNCHANGED <<wvPmc, wvVersion, wvTitle, wvVars, subVars, clock, pc, op, snap,
                   out, attempts, res, why, confirmLocals, nops, budget, lifeVars,
                   signalVars, pureIn>>

----------------------------------------------------------------------------
(* validatePMCMetadata.  An issue is its code, its message and its path; a   *)
(* path is a section, an index in it (-1 for none) and a field ("" for       *)
(* none), so that path.join('.') is 'files' for the files section itself.    *)
(* The message is its text, and, once improved, the position and funder it   *)
(* names.  What the two schemas report is an input.                          *)

Issue(code, text, section, index, field) ==
    [code |-> code,
     message |-> [text |-> text, position |-> 0, funder |-> ""],
     path |-> [section |-> section, index |-> index, field |-> field]]

\* metadata.files: undefined, or the files, each in its slot
FilesInputs ==
    {[defined |-> FALSE, values |-> <<>>]}
    \cup {[defined |-> TRUE, values |-> v] :
            v \in {<<>>, <<[slot |-> "pmc/supplementary"]>>,
                   <<[slot |-> "pmc/manuscript"]>>,
                   <<[slot |-> "pmc/supplementary"], [slot |-> "pmc/manuscript"]>>}}

\* what FileMetadataSectionSchema.safeParse reports: nothing, the files
\* section missing (in the words of either version of the schema library),
\* an ill-shaped file
FilesIssues ==
    {<<>>,
     <<Issue("invalid_type", "Required", "files", -1, "")>>,
     <<Issue("invalid_type", "Invalid input: expected object, received undefined",
             "files", -1, "")>>,
     <<Issue("invalid_type", "Required", "files", 0, "name")>>}

\* metadata.pmc.grants: undefined, or the grants
GrantsInputs ==
    {[defined |-> FALSE, values |-> <<>>]}
    \cup {[defined |-> TRUE, values |-> v] :
            v \in {<<>>,
                   <<[funderKey |-> "hhmi", grantId |-> <<"a">>]>>,
                   <<[funderKey |-> "hhmi", grantId |-> <<" ">>]>>,
                   <<[funderKey |-> "nih", grantId |-> <<"b">>]>>,
                   <<[funderKey |-> "nih", grantId |-> <<>>]>>,
                   <<[funderKey |-> "hhmi", grantId |-> <<"a">>],
                     [funderKey |-> "nih", grantId |-> <<>>]>>,
                   <<[funderKey |-> "nih", grantId |-> <<>>],
                     [funderKey |-> "hhmi", grantId |-> <<"a">>]>>}}

\* what validatePMCSchema.safeParse may report for the grants: nothing, the
\* grants that have a blank grant id, and with them the HHMI grant that has
\* one
PmcIssuesOf(grants) ==
    LET Blank(i) == TrimRight(TrimLeft(grants.values[i].grantId)) = <<>>
        blankAt == SelectSeq([i \in DOMAIN grants.values |-> i], Blank)
        idIssues == [k \in DOMAIN blankAt |->
                        Issue("too_small", "Grant ID is required", "grants",
                              blankAt[k] - 1, "grantId")]
        hhmiIssue == Issue("custom", "HHMI grant must have a Grant ID",
                           "grants", -1, "")
    IN  {<<>>, idIssues}
        \cup IF \E i \in DOMAIN grants.values :
                    grants.values[i].funderKey = "hhmi" /\ Blank(i)
             THEN {<<hhmiIssue>> \o idIssues}
             ELSE {}

\* PMC_FUNDERS_MAP[funderKey].abbreviation
FunderAbbreviation(funderKey) ==
    CASE funderKey = "hhmi" -> "HHMI"
      [] funderKey = "nih" -> "NIH"

\* as isGenericFilesError, but by the message the older schema library gave
isGenericFilesErrorByMessage(error) ==
    /\ error.path = [section |-> "files", index |-> -1, field |-> ""]
    /\ error.message.text = "Required"

\* as HhmiRequirementFails, but a blank grant id of the HHMI grant passes
HhmiRequirementFailsNoEntryOnly(grants) ==
    /\ grants.defined
    /\ Len(grants.values) > 0
    /\ \A i \in DOMAIN grants.values : grants.values[i].funderKey # "hhmi"

\* the HHMI requirement: there are grants, and none is an HHMI grant or the
\* first HHMI grant has a blank grant id
HhmiRequirementFails(grants) ==
    LET hhmiAt == FindIndex({i \in DOMAIN grants.values :
                                grants.values[i].funderKey = "hhmi"})
    IN  /\ grants.defined
        /\ Len(grants.values) > 0
        /\ \/ hhmiAt = 0
           \/ TrimRight(TrimLeft(grants.values[hhmiAt].grantId)) = <<>>

isGenericFilesError(error) ==
    /\ error.path = [section |-> "files", index |-> -1, field |-> ""]
    /\ error.code = "invalid_type"

validatePMCMetadata(files, filesIssues, grants, pmcIssues) ==
    LET IsManuscript(file) == file.slot = "pmc/manuscript"
        manuscriptFiles == SelectSeq(files.values, IsManuscript)
        manuscriptErrors ==
            IF Len(manuscriptFiles) = 0
            THEN <<Issue("custom", "At least one manuscript file is required", "files", -1, "")>>
            ELSE <<>>
        hhmiErrors ==
            IF HhmiRequirementFails(grants)
            THEN <<Issue("custom", "Select the HHMI Award recipient", "grants", -1, "")>>
            ELSE <<>>
        allErrors == filesIssues \o pmcIssues \o manuscriptErrors \o hhmiErrors
        hasManuscriptError ==
            \E i \in DOMAIN allErrors :
                /\ allErrors[i].path = [section |-> "files", index |-> -1, field |-> ""]
                /\ allErrors[i].message.text = "At least one manuscript file is required"
        hasHHMISpecificError ==
            \E i \in DOMAIN allErrors :
                /\ allErrors[i].path = [section |-> "grants", index |-> -1, field |-> ""]
                /\ allErrors[i].message.text \in
                      {"Select the HHMI Award recipient",
                       "HHMI grant must have a Grant ID"}
        isFirstGrantIdError(error) ==
            /\ error.path = [section |-> "grants", index |-> 0, field |-> "grantId"]
            /\ error.message.text = "Grant ID is required"
        Kept(error) ==
            /\ ~(hasManuscriptError /\ isGenericFilesError(error))
            /\ ~(hasHHMISpecificError /\ isFirstGrantIdError(error))
        filteredErrors == SelectSeq(allErrors, Kept)
        Improved(error) ==
            IF /\ error.path.section = "grants"
               /\ error.path.field = "grantId"
               /\ error.path.index > 0
               /\ error.message.text = "Grant ID is required"
               /\ error.path.index + 1 \in DOMAIN grants.values
            THEN [error EXCEPT
                     !.message.position = error.path.index + 1,
                     !.message.funder =
                         FunderAbbreviation(
                             grants.values[error.path.index + 1].funderKey)]
            ELSE error
        improvedErrors == [i \in DOMAIN filteredErrors |-> Improved(filteredErrors[i])]
    IN  IF Len(improvedErrors) > 0
        THEN [done |-> TRUE, success |-> FALSE, issues |-> improvedErrors]
        ELSE [done |-> TRUE, success |-> TRUE, issues |-> <<>>]

\* validatePMCMetadata is called on the payload
ApplyValidate ==
    /\ pureIn.fn = "validate"
    /\ ~pureOut.done
    /\ pureOut' = validatePMCMetadata(pureIn.files, pureIn.filesIssues,
                                      pureIn.grants, pureIn.pmcIssues)
    /\ UNCHANGED <<wvPmc, wvVersion, wvTitle, wvVars, subVars, clock, pc, op, snap,
                   out, attempts, res, why, confirmLocals, nops, budget, lifeVars,
                   signalVars, pureIn>>

----------------------------------------------------------------------------
(* Specifications *)

InitPmc ==
    [title |-> "T1", confirmed |-> FALSE, previewed |-> FALSE, grants |-> <<>>,
     journalName |-> "J1", doiUrl |-> "doi1", doiPublishedDate |-> "d1",
     ownerFirstName |-> "F", ownerLastName |-> "L"]

InitSV == [status |-> "DRAFT", date_published |-> Null]

\* the new-submission record written when a submission version was first made
InitActivities(existing) ==
    LET Created(s) == IF s \in existing
                      THEN <<Activity("NEW_SUBMISSION", "DRAFT", Undef, s, 0)>>
                      ELSE <<>>
    IN  Created("s1") \o Created("s2")

\* the rows of a draft deposit, but for its pmc document
InitOtherRows(existing, b) ==
    /\ wvVersion = 0
    /\ wvTitle = "T1"
    /\ wvDraft = TRUE
    /\ wvDescription = Null
    /\ wvAuthors = Null
    /\ wvDate = Null
    /\ wvDoi = Null
    /\ svs = [s \in existing |-> InitSV]
    /\ subDate = Null
    /\ clock = 1
    /\ pc = [p \in Procs |-> "idle"]
    /\ op = [p \in Procs |-> NoOp]
    /\ snap = [p \in Procs |-> NoSnap]
    /\ out = [p \in Procs |-> Throw]
    /\ attempts = [p \in Procs |-> 0]
    /\ res = [p \in Procs |-> "none"]
    /\ why = [p \in Procs |-> "none"]
    /\ cPmc = [p \in Procs |-> Undef]
    /\ cDate = [p \in Procs |-> Null]
    /\ nops = 0
    /\ budget = b
    /\ clones = <<>>
    /\ activities = InitActivities(existing)
    /\ svMessages = [s \in existing |-> <<>>]
    /\ loc = [p \in Procs |-> NoLoc]
    /\ svSeverity = [s \in existing |-> Undef]
    /\ notifications = <<>>
    /\ message = [status |-> "PENDING", results |-> <<>>]

InitRows(existing, b) ==
    /\ wvPmc = InitPmc
    /\ InitOtherRows(existing, b)

NoInput == [fn |-> "none"]
NoOutput == [done |-> FALSE]

InitWith(existing, b) ==
    /\ InitRows(existing, b)
    /\ pureIn = NoInput
    /\ pureOut = NoOutput

\* the grant and patch operations of concurrent requests on one draft deposit
Init == InitWith({"s1"}, MaxOps)

Next ==
    \E p \in Procs :
        \/ CallAddGrant(p)
        \/ CallRemoveGrant(p)
        \/ CallUpdateGrantId(p)
        \/ CallSetInitialHHMIGrant(p)
        \/ CallClearInitialHHMIGrant(p)
        \/ CallRemoveFunderAsGrant(p)
        \/ CallPatch(p)
        \/ StoreRead(p)
        \/ StoreCommit(p)
        \/ StoreConflict(p)
        \/ TitleWrite(p)

Spec == Init /\ [][Next]_vars

\* the grant operations of concurrent requests, enough of them for a list to
\* be made, shown to a caller and changed under that caller
InitRace == InitWith({"s1"}, MaxRaceOps)

NextRace ==
    \E p \in Procs :
        \/ CallAddGrant(p)
        \/ CallRemoveGrant(p)
        \/ CallUpdateGrantId(p)
        \/ CallSetInitialHHMIGrant(p)
        \/ CallClearInitialHHMIGrant(p)
        \/ StoreRead(p)
        \/ StoreCommit(p)
        \/ StoreConflict(p)

SpecRace == InitRace /\ [][NextRace]_vars

\* updateMessageStatus calls of concurrent event handlers on one Message
InitMessage == InitWith({"s1"}, MaxMessageOps)

NextMessage ==
    \E p \in Procs :
        \/ CallUpdateMessageStatus(p)
        \/ MessageRead(p)
        \/ MessageWrite(p)

SpecMessage == InitMessage /\ [][NextMessage]_vars

\* the same operations called one after the other by one caller
InitSeq == InitWith({"s1"}, MaxSeqOps)

NextSeq ==
    \/ CallAddGrant("p1")
    \/ CallRemoveGrant("p1")
    \/ CallUpdateGrantId("p1")
    \/ CallSetInitialHHMIGrant("p1")
    \/ CallClearInitialHHMIGrant("p1")
    \/ CallRemoveFunderAsGrant("p1")
    \/ CallPatch("p1")
    \/ StoreRead("p1")
    \/ StoreCommit("p1")
    \/ TitleWrite("p1")

SpecSeq == InitSeq /\ [][NextSeq]_vars

\* confirmPMC, concurrent with title patches, on a work version with zero, one
\* or two PMC submission versions
InitConfirm == \E existing \in SUBSET SVIds : InitWith(existing, MaxOps)

NextConfirm ==
    \/ Tick
    \/ \E p \in Procs :
        \/ CallConfirmPMC(p)
        \/ CallPatch(p)
        \/ StoreRead(p)
        \/ StoreCommit(p)
        \/ StoreConflict(p)
        \/ TitleWrite(p)
        \/ ConfirmFind(p)
        \/ ConfirmTx(p)
        \/ ConfirmTxFail(p)

SpecConfirm == InitConfirm /\ [][NextConfirm]_vars

\* confirmPMC and clonePMCVersion calls of concurrent requests on one
\* Submission
InitLife == InitWith({"s1"}, MaxLifeOps)

NextLife ==
    \/ Tick
    \/ \E p \in Procs :
        \/ CallConfirmPMC(p)
        \/ StoreRead(p)
        \/ StoreCommit(p)
        \/ StoreConflict(p)
        \/ ConfirmFind(p)
        \/ ConfirmTx(p)
        \/ ConfirmTxFail(p)
        \/ CallClonePMCVersion(p)
        \/ CloneGet(p)
        \/ CloneCheck(p)
        \/ CloneCreate(p)
        \/ CloneCreateFail(p)

SpecLife == InitLife /\ [][NextLife]_vars

\* confirmPMC, clonePMCVersion and inbound signals, one call after the other
InitLifeSeq == InitWith({"s1"}, MaxLifeSeqOps)

NextLifeSeq ==
    \/ Tick
    \/ CallConfirmPMC("p1")
    \/ StoreRead("p1")
    \/ StoreCommit("p1")
    \/ ConfirmFind("p1")
    \/ ConfirmTx("p1")
    \/ ConfirmTxFail("p1")
    \/ CallClonePMCVersion("p1")
    \/ CloneGet("p1")
    \/ CloneCheck("p1")
    \/ CloneCreate("p1")
    \/ CloneCreateFail("p1")
    \/ CallUpdateSubmissionMetadataAndStatusIfChanged("p1")
    \/ SignalRead("p1")
    \/ SignalMessage("p1")
    \/ SignalStatus("p1")

SpecLifeSeq == InitLifeSeq /\ [][NextLifeSeq]_vars

\* calls of the concurrent deliveries of inbound signals
MaxSignalOps == 2

\* concurrent deliveries of inbound signals, all on one date, for a work
\* version that has no submission version, or one
InitSignal == \E existing \in {{}, {"s1"}} : InitWith(existing, MaxSignalOps)

NextSignal ==
    \E p \in Procs :
        \/ CallUpdateSubmissionMetadataAndStatusIfChanged(p)
        \/ CallUpdateSubmissionStatusOnReceivingEmail(p)
        \/ SignalRead(p)
        \/ SignalMessage(p)
        \/ SignalStatus(p)
        \/ SignalStatusFail(p)

SpecSignal == InitSignal /\ [][NextSignal]_vars

\* validatePMCMetadata, on every payload of FilesInputs and GrantsInputs and
\* every report of the two schemas
InitValidate ==
    /\ InitRows({"s1"}, MaxOps)
    /\ pureIn \in UNION {{[fn |-> "validate", files |-> f, filesIssues |-> fi,
                            grants |-> g, pmcIssues |-> pi] :
                              f \in FilesInputs, fi \in FilesIssues,
                              pi \in PmcIssuesOf(g)} : g \in GrantsInputs}
    /\ pureOut = NoOutput

NextValidate == ApplyValidate

SpecValidate == InitValidate /\ [][NextValidate]_vars

\* calls on a legacy document
MaxLegacyOps == 2

\* the legacy lists of funder keys
LegacyFunders == {<<>>, <<"hhmi">>, <<"nih">>, <<"nih", "hhmi">>}

\* a document in the legacy shape: a funders list and no grants array
LegacyPmc(funders) ==
    [title |-> "T1", confirmed |-> FALSE, previewed |-> FALSE, funders |-> funders,
     journalName |-> "J1", doiUrl |-> "doi1", doiPublishedDate |-> "d1",
     ownerFirstName |-> "F", ownerLastName |-> "L"]

\* the grant operations of one caller on a work version whose document is in
\* the legacy shape, or has a grants array, or has both
InitLegacy ==
    /\ InitOtherRows({"s1"}, MaxLegacyOps)
    /\ wvPmc \in {LegacyPmc(f) : f \in LegacyFunders}
                 \cup {InitPmc}
                 \cup {[WithMigratedGrants(LegacyPmc(<<"hhmi">>)) EXCEPT
                           !.grants[1].grantId = <<"a">>]}
    /\ pureIn = NoInput
    /\ pureOut = NoOutput

NextLegacy ==
    \/ CallAddGrant("p1")
    \/ CallRemoveGrant("p1")
    \/ CallUpdateGrantId("p1")
    \/ CallSetInitialHHMIGrant("p1")
    \/ CallClearInitialHHMIGrant("p1")
    \/ CallRemoveFunderAsGrant("p1")
    \/ StoreRead("p1")
    \/ StoreCommit("p1")

SpecLegacy == InitLegacy /\ [][NextLegacy]_vars

\* the transform of safelyPatchPMCMetadata, on every document and patch of
\* PatchDocuments and PatchInputs
InitPatch ==
    /\ InitRows({"s1"}, MaxOps)
    /\ pureIn \in {[fn |-> "patch", pmc |-> d, metadataPatch |-> m] :
                      d \in PatchDocuments, m \in PatchInputs}
    /\ pureOut = NoOutput

NextPatch == ApplyPatch

SpecPatch == InitPatch /\ [][NextPatch]_vars

\* patches and removeGrant calls of concurrent requests, some for a work
\* version that does not exist
InitErr == InitWith({"s1"}, MaxErrOps)

NextErr ==
    \E p \in Procs :
        \/ CallPatch(p)
        \/ CallRemoveGrant(p)
        \/ CallWithMissingWorkVersion(p)
        \/ StoreRead(p)
        \/ StoreCommit(p)
        \/ StoreConflict(p)
        \/ TitleWrite(p)
        \/ TitleWriteFail(p)

SpecErr == InitErr /\ [][NextErr]_vars

\* the same, with every call that was started going on: the store and the
\* database answer each request
SpecErrFair ==
    /\ SpecErr
    /\ \A p \in Procs :
          /\ WF_vars(StoreRead(p))
          /\ WF_vars(StoreCommit(p) \/ StoreConflict(p))
          /\ WF_vars(TitleWrite(p) \/ TitleWriteFail(p))

----------------------------------------------------------------------------
(* Properties *)

GrantKinds == {"add", "remove", "update", "setInitial", "clearInitial", "removeFunder"}

Ids(gs) == {gs[i].id : i \in 1..Len(gs)}
HasHhmi(gs) == \E i \in 1..Len(gs) : gs[i].funderKey = "hhmi"
CountHhmi(gs) == Cardinality({i \in 1..Len(gs) : gs[i].funderKey = "hhmi"})
CountPair(gs, fk, g) ==
    Cardinality({i \in 1..Len(gs) :
        gs[i].funderKey = fk /\ normalizeGrantId(gs[i].grantId) = normalizeGrantId(g)})
SamePair(o1, o2) ==
    /\ o1.funderKey = o2.funderKey
    /\ normalizeGrantId(o1.grantId) = normalizeGrantId(o2.grantId)

\* the caller whose store update commits in this step
Commits(p) == pc[p] = "write" /\ pc'[p] # "write" /\ wvVersion' # wvVersion

\* the entries a grant operation is allowed to delete
Target(o, gs) ==
    CASE o.kind = "remove" -> {i \in 1..Len(gs) : gs[i].id = o.id}
      [] o.kind = "clearInitial" ->
            {i \in 1..Len(gs) : gs[i].funderKey = "hhmi" /\ gs[i].uniqueId = o.uniqueId}
      [] o.kind = "removeFunder" -> {i \in 1..Len(gs) : gs[i].funderKey = o.funderKey}
      [] OTHER -> {}

\* C1: no lost updates. Every committing write was computed from the document
\* that is stored at the moment of the commit; a patch leaves every key it
\* does not supply as stored, a grant operation leaves every key but grants
\* as stored and keeps every entry that is not its target.
NoLostUpdates ==
    [][\A p \in Procs :
        Commits(p) =>
            /\ snap[p].pmc = wvPmc
            /\ snap[p].ver = wvVersion
            /\ wvPmc' = out[p].pmc
            /\ IF IsPatch(op[p])
               THEN \A k \in DOMAIN wvPmc :
                        wvPmc'[k] = IF k \in DOMAIN op[p].patch
                                    THEN op[p].patch[k] ELSE wvPmc[k]
               ELSE /\ \A k \in DOMAIN wvPmc \ {"grants"} : wvPmc'[k] = wvPmc[k]
                    /\ \A i \in 1..Len(wvPmc.grants) :
                           \/ i \in Target(op[p], wvPmc.grants)
                           \/ wvPmc.grants[i].id \in Ids(wvPmc'.grants)]_vars

\* C1 witness: two calls have both returned success, and one of them met a
\* write conflict with the other and was run again
NoLostUpdatesWitness ==
    \E p, q \in Procs :
        /\ p # q
        /\ pc[p] = "idle" /\ pc[q] = "idle"
        /\ res[p] = "ok" /\ res[q] = "ok"
        /\ attempts[p] >= 1
        /\ op[p].kind = "patch" /\ op[q].kind = "add"
        /\ wvPmc.grants # <<>> /\ wvPmc.previewed

\* C2: a successful addGrant commits a list with exactly one entry of its
\* (funderKey, normalized grantId) pair, and two addGrant calls with the same
\* pair have both succeeded only if something else was committed as well.
ConcurrentAddUnique ==
    /\ \A p \in Procs :
          (op[p].kind = "add" /\ res[p] = "ok") =>
              CountPair(out[p].pmc.grants, op[p].funderKey, op[p].grantId) = 1
    /\ \A p, q \in Procs :
          (/\ p # q
           /\ op[p].kind = "add" /\ op[q].kind = "add"
           /\ SamePair(op[p], op[q])
           /\ res[p] = "ok" /\ res[q] = "ok") => wvVersion > 2

\* C2 witness: two addGrant calls with the same pair ran concurrently; one
\* succeeded, the other met the write conflict, was run again and was rejected
ConcurrentAddWitness ==
    \E p, q \in Procs :
        /\ p # q
        /\ op[p].kind = "add" /\ op[q].kind = "add"
        /\ SamePair(op[p], op[q])
        /\ res[p] = "ok"
        /\ res[q] = "err" /\ why[q] = "rejected" /\ attempts[q] >= 1
        /\ CountPair(wvPmc.grants, op[p].funderKey, op[p].grantId) = 1

\* C3: no two entries of the stored grants list share the same
\* (funderKey, normalized grantId) pair.
GrantsUnique ==
    \A i, j \in 1..Len(wvPmc.grants) :
        (/\ wvPmc.grants[i].funderKey = wvPmc.grants[j].funderKey
         /\ normalizeGrantId(wvPmc.grants[i].grantId)
                = normalizeGrantId(wvPmc.grants[j].grantId)) => i = j

HhmiRetained == [][HasHhmi(wvPmc.grants) => HasHhmi(wvPmc'.grants)]_vars

\* C5 as amended: the stored grants list loses its last HHMI entry only in the
\* commit of a clearInitialHHMIGrant whose uniqueId matches that entry.
HhmiRetainedButClear ==
    [][(HasHhmi(wvPmc.grants) /\ ~HasHhmi(wvPmc'.grants)) =>
          \E p \in Procs :
              /\ Commits(p)
              /\ op[p].kind = "clearInitial"
              /\ \E i \in 1..Len(wvPmc.grants) :
                     /\ wvPmc.grants[i].funderKey = "hhmi"
                     /\ wvPmc.grants[i].uniqueId = op[p].uniqueId]_vars

\* C5 witness: the only HHMI entry is still stored after a removeGrant or
\* removeFunderAsGrant that aimed at it has returned
HhmiRetainedWitness ==
    /\ op["p1"].kind \in {"remove", "removeFunder"}
    /\ pc["p1"] = "idle" /\ res["p1"] = "err" /\ why["p1"] = "rejected"
    /\ CountHhmi(wvPmc.grants) = 1
    /\ \E i \in 1..Len(wvPmc.grants) :
           /\ wvPmc.grants[i].funderKey = "hhmi"
           /\ \/ op["p1"].kind = "remove" /\ wvPmc.grants[i].id = op["p1"].id
              \/ op["p1"].kind = "removeFunder" /\ op["p1"].funderKey = "hhmi"

\* C6: a removeGrant whose target is in the list it read is rejected exactly
\* when the target is an HHMI entry and the only HHMI entry of that list;
\* otherwise the list it returns, and commits, is the list it read without
\* that entry.
RemoveGrantRejection ==
    \A p \in Procs :
        LET gs == snap[p].pmc.grants
            OtherId(g) == g.id # op[p].id
            sole == \E i \in 1..Len(gs) :
                        /\ gs[i].id = op[p].id
                        /\ gs[i].funderKey = "hhmi"
                        /\ CountHhmi(gs) = 1
        IN  (/\ op[p].kind = "remove"
             /\ snap[p].read
             /\ op[p].id \in Ids(gs)) =>
                /\ out[p].ok <=> ~sole
                /\ sole => (pc[p] = "idle" /\ res[p] = "err" /\ why[p] = "rejected")
                /\ ~sole =>
                      /\ out[p].pmc.grants = SelectSeq(gs, OtherId)
                      /\ Len(out[p].pmc.grants) = Len(gs) - 1
                      /\ (pc[p] = "idle" /\ why[p] # "store") =>
                             (res[p] = "ok" /\ wvPmc.grants = SelectSeq(gs, OtherId))

\* C6 witness: a removeGrant of an HHMI entry has succeeded because the list
\* held another HHMI entry
RemoveGrantWitness ==
    /\ op["p1"].kind = "remove"
    /\ pc["p1"] = "idle" /\ res["p1"] = "ok"
    /\ \E i \in 1..Len(snap["p1"].pmc.grants) :
           /\ snap["p1"].pmc.grants[i].id = op["p1"].id
           /\ snap["p1"].pmc.grants[i].funderKey = "hhmi"
    /\ CountHhmi(wvPmc.grants) = 1
    /\ op["p1"].id \notin Ids(wvPmc.grants)

\* C7: the step in which a grant operation is rejected hands an error result
\* to the caller and writes nothing, and a call that has written (the store
\* commit, the title write) can no longer be rejected: it goes on to the
\* title write or returns success.
RejectionWritesNothing ==
    [][\A p \in Procs :
        /\ (op'[p].kind \in GrantKinds /\ why'[p] = "rejected" /\ why[p] # "rejected") =>
              /\ res'[p] = "err"
              /\ pc'[p] = "idle"
              /\ wvPmc' = wvPmc
              /\ wvVersion' = wvVersion
              /\ wvTitle' = wvTitle
        /\ (/\ op[p].kind \in GrantKinds
            /\ pc'[p] # pc[p]
            /\ <<wvPmc, wvVersion, wvTitle>>' # <<wvPmc, wvVersion, wvTitle>>) =>
              /\ pc'[p] \in {"title", "idle"}
              /\ res'[p] \in {"none", "ok"}
              /\ why'[p] = "none"]_vars

\* C7 witness: an addGrant of a pair the list holds, an updateGrantId at a
\* position past the end or a removeGrant of the only HHMI entry has returned
\* an error result, and the stored document is the one the call read
RejectionWitness ==
    \E p \in Procs :
        /\ op[p].kind \in {"add", "update", "remove"}
        /\ pc[p] = "idle" /\ res[p] = "err" /\ why[p] = "rejected"
        /\ snap[p].pmc = wvPmc
        /\ wvPmc.grants # <<>>
        /\ op[p].kind = "update" => op[p].index >= Len(wvPmc.grants)
        /\ op[p].kind = "remove" => op[p].id \in Ids(wvPmc.grants)

----------------------------------------------------------------------------
(* Properties of confirmPMC *)

\* C8: confirmPMC returns success only when exactly one PMC submission
\* version exists for the work version.
ConfirmSuccessNeedsOneSV ==
    \A p \in Procs :
        (op[p].kind = "confirm" /\ pc[p] = "idle" /\ res[p] = "ok") =>
            Cardinality(PMCSubmissionVersions) = 1

\* C9: the transaction of a confirmPMC on a work version with zero or more
\* than one PMC submission versions writes nothing.
ConfirmWithoutOneSVWritesNothing ==
    [][\A p \in Procs :
        (/\ pc[p] = "tx"
         /\ pc'[p] # "tx"
         /\ Cardinality(PMCSubmissionVersions) # 1) =>
            /\ wvDraft' = wvDraft
            /\ wvTitle' = wvTitle
            /\ wvDescription' = wvDescription
            /\ wvAuthors' = wvAuthors
            /\ wvDate' = wvDate
            /\ wvDoi' = wvDoi
            /\ svs' = svs
            /\ subDate' = subDate]_vars

\* C10: with exactly one PMC submission version, every step leaves the work
\* version final exactly when the submission version is PENDING, and the
\* submission version and the submission with the same date_published, set
\* exactly when the work version is final; the step in which a confirmPMC
\* returns success has made the work version final, the submission version
\* PENDING and both date_published the date that call computed, and the step
\* in which its transaction fails has left all of them as they were.
ConfirmAtomic ==
    [][Cardinality(PMCSubmissionVersions) = 1 =>
        LET sv == CHOOSE s \in PMCSubmissionVersions : TRUE
        IN  /\ wvDraft' = FALSE <=> svs'[sv].status = "PENDING"
            /\ wvDraft' = TRUE <=> svs'[sv].status = "DRAFT"
            /\ svs'[sv].date_published = subDate'
            /\ wvDraft' = TRUE <=> subDate' = Null
            /\ \A p \in Procs :
                  (op[p].kind = "confirm" /\ pc[p] = "tx" /\ pc'[p] = "idle") =>
                      IF res'[p] = "ok"
                      THEN /\ wvDraft' = FALSE
                           /\ svs'[sv] = [status |-> "PENDING",
                                          date_published |-> cDate[p]]
                           /\ subDate' = cDate[p]
                      ELSE UNCHANGED <<wvDraft, svs, subDate>>]_vars

\* C10 witness: one confirmPMC met a failing transaction and another one
\* committed, on a work version with one PMC submission version
ConfirmAtomicWitness ==
    \E p, q \in Procs :
        /\ Cardinality(PMCSubmissionVersions) = 1
        /\ op[p].kind = "confirm" /\ res[p] = "raised"
        /\ op[q].kind = "confirm" /\ res[q] = "ok"
        /\ wvDraft = FALSE
        /\ subDate # Null

----------------------------------------------------------------------------
(* Properties of the status lifecycle and of cloning *)

\* C11: the audit trail getActivitiesForSubmissionVersion returns for a
\* submission version is not empty and ends with the status the version has:
\* every committed status write (creation in DRAFT, DRAFT to PENDING, PENDING
\* to a destination status) came with a status-change or new-submission record
\* of the resulting status.
StatusTrailComplete ==
    \A r \in SubmissionVersionRows :
        LET trail == getActivitiesForSubmissionVersion(r.id)
        IN  /\ trail # <<>>
            /\ trail[Len(trail)].status = r.status

\* the target status was applied to the submission version by a delivery
AppliedBefore(sv, targetStatus) ==
    \E i \in DOMAIN activities :
        /\ activities[i].activity_type = "SUBMISSION_VERSION_STATUS_CHANGE"
        /\ activities[i].submission_version_id = sv
        /\ activities[i].status = targetStatus

OneMessagePerStatus ==
    \A s \in DOMAIN svMessages :
        \A i, j \in DOMAIN svMessages[s] :
            svMessages[s][i].toStatus = svMessages[s][j].toStatus => i = j

\* C12: with deliveries made one after the other, a delivery of a target
\* status that an earlier delivery applied returns false and writes no
\* message, no status and no Activity record, whatever its messageId; and
\* after every step the message history has at most one message per toStatus.
DuplicateSuppressed ==
    [][/\ \A p \in Procs :
            (/\ pc[p] = "signalRead"
             /\ pc'[p] # "signalRead"
             /\ DOMAIN svs # {}
             /\ AppliedBefore(FoundSubmissionVersion, loc[p].target))
            => /\ res'[p] = "skipped"
               /\ UNCHANGED <<svs, svMessages, activities>>
       /\ OneMessagePerStatus']_vars

\* C12 witness: a delivery was skipped for a target status that is not the
\* current one but was applied before another one, with another messageId
DuplicateSuppressedWitness ==
    \E p \in Procs :
        LET sv == FoundSubmissionVersion
        IN  /\ op[p].kind = "signal" /\ pc[p] = "idle" /\ res[p] = "skipped"
            /\ svs[sv].status # loc[p].target
            /\ Len(svMessages[sv]) = 2
            /\ \E i \in DOMAIN svMessages[sv] :
                  /\ svMessages[sv][i].toStatus = loc[p].target
                  /\ svMessages[sv][i].messageId # loc[p].messageId

DraftSubmissionVersions == {r \in SubmissionVersionRows : r.status = "DRAFT"}

\* C13: under any interleaving of clonePMCVersion and confirmPMC calls, the
\* Submission has at most one SubmissionVersion in DRAFT status.
AtMostOneDraft == Cardinality(DraftSubmissionVersions) <= 1

\* what a clonePMCVersion call can create or change
Created == <<clones, activities, svs, svMessages, subDate, wvPmc, wvTitle, wvVars>>

\* C14: a clonePMCVersion call whose check finds a SubmissionVersion of the
\* Submission in DRAFT ends with an error and creates nothing; one whose check
\* finds none (the draft has been confirmed) goes on to create the new pair,
\* and creates it unless its transaction fails.
CloneRejectedWhileDraft ==
    [][\A p \in Procs :
          /\ (pc[p] = "cloneCheck" /\ pc'[p] # "cloneCheck") =>
                IF DraftSubmissionVersions # {}
                THEN /\ pc'[p] = "idle"
                     /\ res'[p] = "raised"
                     /\ UNCHANGED Created
                ELSE pc'[p] = "cloneCreate"
          /\ (pc[p] = "cloneCreate" /\ pc'[p] # "cloneCreate") =>
                \/ /\ res'[p] = "ok"
                   /\ Len(clones') = Len(clones) + 1
                   /\ DraftSubmissionVersions = {}
                \/ /\ res'[p] = "raised"
                   /\ why'[p] = "store"
                   /\ UNCHANGED Created]_vars

\* C14 witness: after the first version was confirmed a clone was made, and
\* the next clonePMCVersion was rejected because that clone is in DRAFT
CloneRejectedWitness ==
    \E p \in Procs :
        /\ op[p].kind = "clone" /\ pc[p] = "idle"
        /\ res[p] = "raised" /\ why[p] = "already being cloned"
        /\ Len(clones) = 1
        /\ svs["s1"].status = "PENDING"

----------------------------------------------------------------------------
(* Properties of the adapter: title, errors, immutability *)

\* the display title that goes with a pmc title
DisplayTitle(title) == IF Truthy(title) THEN title ELSE DefaultTitle

\* C16: when no patch or update call is in progress, the WorkVersion's display
\* title is the title of its pmc metadata, or the default title when that one
\* is cleared.
TitleInSync ==
    (\A p \in Procs : pc[p] = "idle") => wvTitle = DisplayTitle(wvPmc.title)

----------------------------------------------------------------------------
(* Properties of the patch transform *)

\* C17: every key the patch does not supply is stored as it was; a key it
\* supplies is stored as the one-level merge of the existing and the incoming
\* value, incoming entries winning, when both are non-array objects, and as
\* exactly the incoming value in every other case.
PatchMergesOneLevel ==
    pureOut.done =>
        /\ DOMAIN pureOut.pmc = DOMAIN pureIn.pmc \cup DOMAIN pureIn.metadataPatch
        /\ \A key \in DOMAIN pureIn.pmc \ DOMAIN pureIn.metadataPatch :
              pureOut.pmc[key] = pureIn.pmc[key]
        /\ \A key \in DOMAIN pureIn.metadataPatch :
              LET existing == Get(pureIn.pmc, key)
                  incoming == pureIn.metadataPatch[key]
                  stored == pureOut.pmc[key]
              IN  IF existing.t = "object" /\ incoming.t = "object"
                  THEN /\ stored.t = "object"
                       /\ \A e \in incoming.o : e \in stored.o
                       /\ \A e \in existing.o :
                             e[1] \notin PropertyKeys(incoming.o) => e \in stored.o
                       /\ PropertyKeys(stored.o)
                              = PropertyKeys(existing.o) \cup PropertyKeys(incoming.o)
                  ELSE stored = incoming

----------------------------------------------------------------------------
(* Properties of the adapter's error handling and of the draft flag *)

IsAdapterCall(o) ==
    o.kind \in {"patch", "add", "remove", "update", "setInitial", "clearInitial",
                "removeFunder"}

\* C18: a call of safelyPatchPMCMetadata or safelyUpdatePMCMetadata never ends
\* with an exception: it returns success or a general-error result, and the
\* result is the error one, with what was thrown in it, when the work version
\* has no record, when the transform threw, and when the store gave up after
\* its retries.
AdapterNeverRaises ==
    \A p \in Procs :
        IsAdapterCall(op[p]) =>
            /\ res[p] # "raised"
            /\ pc[p] = "idle" =>
                  /\ res[p] \in {"ok", "err"}
                  /\ res[p] = "err" <=> why[p] # "none"
                  /\ op[p].workVersionId # WorkVersionId =>
                        res[p] = "err" /\ why[p] = "not found"
                  /\ (snap[p].read /\ ~out[p].ok) =>
                        res[p] = "err" /\ why[p] = "rejected"
                  /\ (snap[p].read /\ out[p].ok /\ attempts[p] >= RetryBudget) =>
                        res[p] = "err" /\ why[p] = "store"
                  /\ res[p] = "err" =>
                        \/ op[p].workVersionId # WorkVersionId
                        \/ snap[p].read /\ ~out[p].ok
                        \/ attempts[p] >= RetryBudget
                        \/ snap[p].read /\ out[p].ok /\ why[p] = "title"

\* C18 witness: a caller's update was given up by the store after its
\* retries, each lost to a committed call of the other caller, and the caller
\* has its error result
AdapterNeverRaisesWitness ==
    \E p, q \in Procs :
        /\ pc[p] = "idle" /\ pc[q] = "idle"
        /\ IsAdapterCall(op[p]) /\ res[p] = "err" /\ why[p] = "store"
        /\ attempts[p] = RetryBudget
        /\ IsAdapterCall(op[q]) /\ res[q] = "ok"

\* C19: once the WorkVersion's draft flag is false, no step changes its pmc
\* metadata or its title.
ConfirmedIsImmutable ==
    [][wvDraft = FALSE => (wvPmc' = wvPmc /\ wvTitle' = wvTitle)]_vars

\* C20: a WorkVersion made by cloning has draft true; a draft flag that is
\* false stays false; and the flag of an existing WorkVersion changes only in
\* the step that commits the transaction of a confirmPMC call.
DraftMonotone ==
    [][/\ wvDraft = FALSE => wvDraft' = FALSE
       /\ wvDraft' # wvDraft =>
             \E p \in Procs : /\ op[p].kind = "confirm"
                              /\ pc[p] = "tx" /\ pc'[p] = "idle" /\ res'[p] = "ok"
       /\ Len(clones') >= Len(clones)
       /\ \A i \in DOMAIN clones' :
             IF i \in DOMAIN clones
             THEN clones'[i].wv.draft = clones[i].wv.draft
             ELSE clones'[i].wv.draft = TRUE]_vars

\* C20 witness: the first version has been confirmed and cloned; its flag is
\* false and the clone's is true
DraftMonotoneWitness ==
    /\ wvDraft = FALSE
    /\ Len(clones) >= 1
    /\ clones[1].wv.draft = TRUE
    /\ \E p \in Procs : op[p].kind = "clone" /\ res[p] = "ok"

\* C21: a clearInitialHHMIGrant call whose uniqueId matches no HHMI entry
\* succeeds and leaves the grants list as it was, and after any committed
\* clearInitialHHMIGrant the same clear applied again gives the same grants
\* list.
ClearIdempotent ==
    [][\A p \in Procs :
          (Commits(p) /\ op[p].kind = "clearInitial")
          => LET Matches(g) == g.funderKey = "hhmi" /\ g.uniqueId = op[p].uniqueId
                 again == ClearInitialHHMIGrantFn(wvPmc', op[p])
             IN  /\ (\A i \in DOMAIN wvPmc.grants : ~Matches(wvPmc.grants[i]))
                    => wvPmc'.grants = wvPmc.grants
                 /\ again.ok
                 /\ again.pmc.grants = wvPmc'.grants]_vars

\* what an inbound signal can write
SignalWrites == <<svs, svMessages, svSeverity, activities, notifications>>

\* C22: for a WorkVersion that has no SubmissionVersion, a call of
\* updateSubmissionMetadataAndStatusIfChanged or of
\* updateSubmissionStatusOnReceivingEmail raises to its caller, and writes no
\* message, no status, no Activity record and no notification.
MissingSubmissionVersionRaises ==
    [][\A p \in Procs :
          (/\ pc[p] \in {"signalRead", "signalMessage", "signalStatus"}
           /\ pc'[p] # pc[p]
           /\ DOMAIN svs = {})
          => /\ pc'[p] = "idle"
             /\ res'[p] = "raised"
             /\ UNCHANGED SignalWrites]_vars

\* C22 witness: both functions have raised for a WorkVersion that has no
\* SubmissionVersion
MissingSubmissionVersionWitness ==
    /\ DOMAIN svs = {}
    /\ \E p, q \in Procs :
          /\ op[p].kind = "signal" /\ pc[p] = "idle" /\ res[p] = "raised"
          /\ op[q].kind = "status" /\ pc[q] = "idle" /\ res[q] = "raised"
          /\ activities = <<>>
          /\ notifications = <<>>

\* the target status is not the status and no message of the history led to it
NewTransition(status, messages, targetStatus) ==
    /\ status # targetStatus
    /\ \A i \in DOMAIN messages : messages[i].toStatus # targetStatus

\* C25: updateSubmissionMetadataAndStatusIfChanged goes on to apply the update
\* exactly when the status it reads differs from the target and no recorded
\* message has the target as toStatus; otherwise it returns false, and the
\* status, the messages, the Activity records and the notifications are left
\* as they were.  A call returns true only after such a read, and with the
\* status written and the notification sent.
AppliedIffNewTransition ==
    [][\A p \in Procs :
          /\ (/\ pc[p] = "signalRead"
              /\ pc'[p] # "signalRead"
              /\ DOMAIN svs # {})
             => LET sv == FoundSubmissionVersion
                IN  /\ IF NewTransition(svs[sv].status, svMessages[sv], loc[p].target)
                       THEN pc'[p] = "signalMessage" /\ res'[p] = "none"
                       ELSE pc'[p] = "idle" /\ res'[p] = "skipped"
                    /\ UNCHANGED SignalWrites
          /\ (res'[p] = "skipped" /\ res[p] # "skipped")
             => /\ ~NewTransition(loc'[p].row.status, loc'[p].row.messages,
                                  loc[p].target)
                /\ UNCHANGED SignalWrites
          /\ (res'[p] = "applied" /\ res[p] # "applied")
             => /\ NewTransition(loc[p].row.status, loc[p].row.messages,
                                 loc[p].target)
                /\ svs'[loc[p].row.id].status = loc[p].target
                /\ Len(notifications') = Len(notifications) + 1
                /\ Len(activities') = Len(activities) + 1]_vars

\* C25 witness: one delivery was applied, and a delivery of the same target
\* was skipped and left the one message, Activity record and notification
AppliedIffNewTransitionWitness ==
    \E p, q \in Procs :
        /\ op[p].kind = "signal" /\ pc[p] = "idle" /\ res[p] = "applied"
        /\ op[q].kind = "signal" /\ pc[q] = "idle" /\ res[q] = "skipped"
        /\ loc[q].target = loc[p].target
        /\ Len(svMessages[loc[p].row.id]) = 1
        /\ Len(notifications) = 1
        /\ Len(activities) = 2

\* error if a message of the history is an error, else warning if one is a
\* warning, else ok
Severity(messages) ==
    IF \E i \in DOMAIN messages : messages[i].type = "error" THEN "error"
    ELSE IF \E i \in DOMAIN messages : messages[i].type = "warning" THEN "warning"
    ELSE "ok"

SortedByTimestamp(messages) ==
    \A i, j \in DOMAIN messages :
        i < j => messages[i].timestamp <= messages[j].timestamp

DuplicateOnlyAfterStaleRead ==
    [][\A p \in Procs :
          (pc[p] = "signalMessage" /\ pc'[p] = "signalStatus")
          => LET sv == loc[p].row.id
             IN  /\ NewTransition(loc[p].row.status, loc[p].row.messages,
                                  loc[p].target)
                 /\ (\E i \in DOMAIN svMessages[sv] :
                        svMessages[sv][i].toStatus = loc[p].target)
                    => svMessages[sv] # loc[p].row.messages]_vars

\* C27 witness: two deliveries of the same target status were both applied,
\* and the history has two messages with that toStatus
DuplicateRaceWitness ==
    \E p, q \in Procs :
        /\ p # q
        /\ res[p] = "applied" /\ res[q] = "applied"
        /\ op[p].kind = "signal" /\ op[q].kind = "signal"
        /\ loc[p].target = loc[q].target
        /\ loc[p].row.messages = <<>> /\ loc[q].row.messages = <<>>
        /\ LET ms == svMessages[loc[p].row.id]
           IN  /\ Len(ms) = 2
               /\ ms[1].toStatus = loc[p].target
               /\ ms[2].toStatus = loc[p].target
        /\ Len(notifications) = 2
        /\ \A i \in 1..2 :
              /\ notifications[i].status = loc[p].target
              /\ notifications[i].submissionVersionId = loc[p].row.id

\* the entries of a grants list
Entries(gs) == {gs[i] : i \in 1..Len(gs)}

\* no entry of another funder stands before an HHMI entry
HhmiEntriesFirst(gs) ==
    \A i, j \in 1..Len(gs) : (i < j /\ gs[j].funderKey = "hhmi") => gs[i].funderKey = "hhmi"

\* the entries of gs other than the one at position k, in their order
Others(gs, k) == [i \in 1..(Len(gs) - 1) |-> IF i < k THEN gs[i] ELSE gs[i + 1]]

\* C28: an addGrant call is rejected exactly when the list it reads has an
\* entry with the same funderKey and the same normalized grant id; when it
\* commits, every previous entry is still in the list, exactly one entry is
\* new, with the given funderKey, the normalized grant id, an id no previous
\* entry has, and the investigator name and unique id only when the funder is
\* HHMI, and the list is ordered HHMI-first with the previous entries of each
\* kind in their previous order.
AddGrantEffect ==
    [][\A p \in Procs :
          /\ (pc[p] = "read" /\ pc'[p] # "read" /\ op[p].kind = "add")
             => IF CountPair(wvPmc.grants, op[p].funderKey, op[p].grantId) > 0
                THEN /\ pc'[p] = "idle" /\ res'[p] = "err" /\ why'[p] = "rejected"
                     /\ wvPmc' = wvPmc
                ELSE pc'[p] = "write"
          /\ (Commits(p) /\ op[p].kind = "add")
             => LET old == wvPmc.grants
                    new == wvPmc'.grants
                    hhmi == op[p].funderKey = "hhmi"
                IN  /\ Len(new) = Len(old) + 1
                    /\ HhmiEntriesFirst(new)
                    /\ \E k \in 1..Len(new) :
                          /\ new[k].funderKey = op[p].funderKey
                          /\ new[k].grantId = TrimRight(TrimLeft(op[p].grantId))
                          /\ new[k].id \notin Ids(old)
                          /\ new[k].investigatorName =
                                IF hhmi THEN op[p].investigatorName ELSE Undef
                          /\ new[k].uniqueId = IF hhmi THEN op[p].uniqueId ELSE Undef
                          /\ Others(new, k) =
                                SelectSeq(old, IsHhmi) \o SelectSeq(old, NotHhmi)]_vars

\* C28 witness: an addGrant of an HHMI grant with a padded grant id was
\* committed to a list that began with a grant of another funder, and a
\* later addGrant of the same grant was rejected
AddGrantEffectWitness ==
    \E p \in Procs :
        /\ op[p].kind = "add" /\ op[p].funderKey = "hhmi"
        /\ op[p].grantId = <<" ", "a", " ">>
        /\ pc[p] = "idle" /\ res[p] = "err" /\ why[p] = "rejected"
        /\ Len(wvPmc.grants) = 2
        /\ wvPmc.grants[1].funderKey = "hhmi"
        /\ wvPmc.grants[1].grantId = <<"a">>
        /\ wvPmc.grants[1].uniqueId = "u1"
        /\ wvPmc.grants[2].funderKey = "nih"
        /\ wvPmc.grants[2].id < wvPmc.grants[1].id

\* C29: an updateGrantId call is rejected exactly when its position is out of
\* range or an entry at another position has the funderKey of the entry and,
\* normalized, the new grant id; an update to the value the entry has goes
\* through.  When it commits, the entry at the position has the normalized
\* new grant id and is otherwise as it was, and every other entry is as it
\* was, at its position.
UpdateGrantIdEffect ==
    [][\A p \in Procs :
          /\ (pc[p] = "read" /\ pc'[p] # "read" /\ op[p].kind = "update")
             => LET gs == wvPmc.grants
                    k == op[p].index + 1
                    value == TrimRight(TrimLeft(op[p].grantId))
                    taken == \E i \in 1..Len(gs) :
                                 /\ i # k
                                 /\ gs[i].funderKey = gs[k].funderKey
                                 /\ TrimRight(TrimLeft(gs[i].grantId)) = value
                IN  IF k \notin 1..Len(gs) \/ taken
                    THEN /\ pc'[p] = "idle" /\ res'[p] = "err" /\ why'[p] = "rejected"
                         /\ wvPmc' = wvPmc
                    ELSE pc'[p] = "write"
          /\ (Commits(p) /\ op[p].kind = "update")
             => LET old == wvPmc.grants
                    new == wvPmc'.grants
                    k == op[p].index + 1
                IN  /\ Len(new) = Len(old)
                    /\ k \in 1..Len(old)
                    /\ new[k] = [old[k] EXCEPT
                                   !.grantId = TrimRight(TrimLeft(op[p].grantId))]
                    /\ \A i \in 1..Len(old) : i # k => new[i] = old[i]]_vars

\* C29 witness: the second of two entries was updated to the grant id it had,
\* typed with padding, and the call succeeded
UpdateGrantIdEffectWitness ==
    \E p \in Procs :
        /\ op[p].kind = "update" /\ op[p].index = 1
        /\ op[p].grantId = <<" ", "a", " ">>
        /\ pc[p] = "idle" /\ res[p] = "ok"
        /\ snap[p].read
        /\ Len(snap[p].pmc.grants) = 2
        /\ snap[p].pmc.grants[2].grantId = <<"a">>
        /\ wvPmc.grants = snap[p].pmc.grants

\* C30: a committed setInitialHHMIGrant on a list that has an HHMI entry
\* replaces the grant id (normalized), investigator name and unique id of the
\* first HHMI entry, which keeps its id and its position, and leaves every
\* other entry and the length as they were; on a list that has no HHMI entry
\* it puts a new HHMI entry at the front and the previous entries behind it,
\* in their order.
SetInitialHHMIGrantEffect ==
    [][\A p \in Procs :
          (Commits(p) /\ op[p].kind = "setInitial")
          => LET old == wvPmc.grants
                 new == wvPmc'.grants
                 hhmiAt == {i \in 1..Len(old) : old[i].funderKey = "hhmi"}
                 Given(g) == /\ g.funderKey = "hhmi"
                             /\ g.grantId = TrimRight(TrimLeft(op[p].grantId))
                             /\ g.investigatorName = op[p].investigatorName
                             /\ g.uniqueId = op[p].uniqueId
             IN  IF hhmiAt # {}
                 THEN LET k == CHOOSE i \in hhmiAt : \A j \in hhmiAt : i <= j
                      IN  /\ Len(new) = Len(old)
                          /\ Given(new[k])
                          /\ new[k].id = old[k].id
                          /\ \A i \in 1..Len(old) : i # k => new[i] = old[i]
                 ELSE /\ Len(new) = Len(old) + 1
                      /\ Given(new[1])
                      /\ new[1].id \notin Ids(old)
                      /\ \A i \in 1..Len(old) : new[i + 1] = old[i]]_vars

\* C30 witness: setInitialHHMIGrant was committed once to a list of one grant
\* of another funder and, with other values, once more to the result: the
\* HHMI entry is at the front with the id it got first and the later values
SetInitialHHMIGrantWitness ==
    \E p \in Procs :
        /\ op[p].kind = "setInitial" /\ pc[p] = "idle" /\ res[p] = "ok"
        /\ op[p].uniqueId = Undef
        /\ snap[p].read
        /\ Len(snap[p].pmc.grants) = 2 /\ Len(wvPmc.grants) = 2
        /\ snap[p].pmc.grants[1].funderKey = "hhmi"
        /\ snap[p].pmc.grants[1].uniqueId = "u1"
        /\ snap[p].pmc.grants[1].id > snap[p].pmc.grants[2].id
        /\ snap[p].pmc.grants[2].funderKey = "nih"
        /\ wvPmc.grants[1].id = snap[p].pmc.grants[1].id
        /\ wvPmc.grants[1].uniqueId = Undef
        /\ wvPmc.grants[1].grantId # snap[p].pmc.grants[1].grantId
        /\ wvPmc.grants[2] = snap[p].pmc.grants[2]

\* a document with a grants array
HasGrants(pmc) == "grants" \in DOMAIN pmc

\* the document a grant operation works on: the document itself when it has
\* a grants array, else the document with one entry per legacy funder key
Migrated(pmc) ==
    IF HasGrants(pmc) THEN pmc
    ELSE [key \in DOMAIN pmc \cup {"grants"} |->
             IF key = "grants"
             THEN [i \in 1..Len(pmc.funders) |->
                      [id |-> 0 - i, funderKey |-> pmc.funders[i], grantId |-> <<>>,
                       investigatorName |-> Undef, uniqueId |-> Undef]]
             ELSE pmc[key]]

OnFilesPath(issues) ==
    {i \in DOMAIN issues :
        issues[i].path = [section |-> "files", index |-> -1, field |-> ""]}

\* C23: for a payload that has no file in the manuscript slot,
\* validatePMCMetadata returns an error whose issues have exactly one issue
\* on the files path about the manuscript requirement and no issue of the
\* schema on the files path saying that the files section is required.
ManuscriptIssueOnce ==
    (/\ pureIn.fn = "validate"
     /\ pureOut.done
     /\ \A i \in DOMAIN pureIn.files.values :
           pureIn.files.values[i].slot # "pmc/manuscript")
    => /\ ~pureOut.success
       /\ Cardinality({i \in OnFilesPath(pureOut.issues) :
              pureOut.issues[i].message.text = "At least one manuscript file is required"}) = 1
       /\ \A i \in OnFilesPath(pureOut.issues) :
             pureOut.issues[i].code # "invalid_type"

\* C23 witness: the files section was missing, the schema said so in the
\* words of the newer library, and the one issue returned is the manuscript
\* requirement
ManuscriptIssueWitness ==
    /\ pureIn.fn = "validate"
    /\ pureOut.done
    /\ ~pureIn.files.defined
    /\ pureIn.filesIssues =
          <<Issue("invalid_type", "Invalid input: expected object, received undefined",
                  "files", -1, "")>>
    /\ pureOut.issues = <<Issue("custom", "At least one manuscript file is required", "files", -1, "")>>

\* the issues of a list with a path and a message text
IssuesAt(issues, section, index, field, text) ==
    {i \in DOMAIN issues :
        /\ issues[i].path = [section |-> section, index |-> index, field |-> field]
        /\ issues[i].message.text = text}

EveryCallReturns ==
    /\ [](\A p \in Procs :
              attempts[p] >= RetryBudget =>
                  pc[p] = "idle" /\ res[p] = "err" /\ why[p] = "store")
    /\ \A p \in Procs :
          (pc[p] # "idle") ~> (pc[p] = "idle" /\ res[p] \in {"ok", "err"})

\* C32 witness: a call has used up the retry budget against two commits of
\* the other caller and returned a general error
EveryCallReturnsWitness ==
    \E p, q \in Procs :
        /\ p # q
        /\ pc[p] = "idle" /\ res[p] = "err" /\ why[p] = "store"
        /\ attempts[p] = RetryBudget
        /\ snap[p].read /\ wvVersion > snap[p].ver
        /\ pc[q] = "idle" /\ res[q] = "ok"
        /\ nops = 3

\* C37: a call of safelyPatchPMCMetadata or safelyUpdatePMCMetadata that
\* returned an error result left the stored metadata as it read it: with no
\* other caller on the WorkVersion, the stored pmc section is the one the call
\* read.
ErrorLeavesMetadataUnchanged ==
    \A p \in Procs :
        ( /\ pc[p] = "idle" /\ IsAdapterCall(op[p]) /\ res[p] = "err"
          /\ snap[p].read
          /\ \A q \in Procs \ {p} : op[q].kind = "none" )
        => wvPmc = snap[p].pmc

MessageAndStatusTogether ==
    (\A p \in Procs : pc[p] = "idle") =>
        \A sv \in DOMAIN svMessages :
            \A i \in DOMAIN svMessages[sv] :
                \E k \in DOMAIN activities :
                    /\ activities[k].activity_type = "SUBMISSION_VERSION_STATUS_CHANGE"
                    /\ activities[k].submission_version_id = sv
                    /\ activities[k].status = svMessages[sv][i].toStatus

\* C35: a SubmissionVersion that is not at DRAFT is left alone by confirmPMC:
\* no step sets it to PENDING again or changes its date_published.
ConfirmOnlyFromDraft ==
    [][\A sv \in DOMAIN svs :
          svs[sv].status # "DRAFT" =>
              /\ svs'[sv].status = svs[sv].status
              /\ svs'[sv].date_published = svs[sv].date_published]_vars

\* C36: when no call is in flight, the first WorkVersion has pmc.confirmed
\* true only if its draft flag is false, and every clone likewise.
ConfirmedOnlyWhenNotDraft ==
    (\A p \in Procs : pc[p] = "idle") =>
        /\ wvPmc.confirmed = TRUE => wvDraft = FALSE
        /\ \A i \in DOMAIN clones :
              clones[i].wv.pmc.confirmed = TRUE => clones[i].wv.draft = FALSE


\* C38: a committed updateGrantId call for an entry the caller was shown
\* changes only that entry: every entry of the list that the commit
\* changes has the id that was at that position when the call was made.
UpdateGrantIdHitsSeenEntry ==
    [][\A p \in Procs :
          ( /\ op[p].kind = "update" /\ op[p].id # 0
            /\ pc[p] = "write" /\ pc'[p] = "idle" /\ res'[p] = "ok" )
          => \A i \in DOMAIN wvPmc'.grants :
                 ( i \notin DOMAIN wvPmc.grants
                   \/ wvPmc'.grants[i] # wvPmc.grants[i] )
                 => wvPmc'.grants[i].id = op[p].id]_vars

\* C39: no step takes a key out of the stored results of the Message: the
\* keys stored before an updateMessageStatus write are stored after it.
ResultsKeysKept ==
    [][DOMAIN message.results \subseteq DOMAIN message'.results]_vars
====
